---------------------------- MODULE Spec2Model ----------------------------
(***************************************************************************)
(* Excel vs PDF Comparator (src/app.py): the field normalizers, the        *)
(* regular-expression extraction of student and course records from the    *)
(* text of a PDF, and the two comparison phases.                           *)
(*                                                                         *)
(* A Python str is a sequence of one-character strings.  A character of    *)
(* the model is one of Chars; "U2217" stands for the one code point        *)
(* U+2217 (asterisk operator), "LF" for the line feed.  Operators over texts avoid recursion on    *)
(* the length of the text.                                                 *)
(***************************************************************************)
EXTENDS Integers, Sequences, FiniteSets, TLC

(***************************************************************************)
(* Characters and character classes.                                       *)
(***************************************************************************)
UpperSeq == <<"A", "B", "C", "D", "E", "F", "G", "H", "I", "J", "K", "L", "M", "N", "O", "P", "Q", "R", "S", "T", "U", "V", "W", "X", "Y", "Z">>
LowerSeq == <<"a", "b", "c", "d", "e", "f", "g", "h", "i", "j", "k", "l", "m", "n", "o", "p", "q", "r", "s", "t", "u", "v", "w", "x", "y", "z">>
DigitSeq == <<"0", "1", "2", "3", "4", "5", "6", "7", "8", "9">>

Upper == {UpperSeq[i] : i \in 1..26}
Lower == {LowerSeq[i] : i \in 1..26}
Digit == {DigitSeq[i] : i \in 1..10}
Letter == Upper \cup Lower
\* "LF" stands for the line feed that ends the text of a page
Space == {" ", "LF"}
Stars == {"*", "U2217"}
Punct == {".", "-", ":", "/", "+", "&", "(", ")", ",", "#", "'"}
Chars == Letter \cup Digit \cup Space \cup Stars \cup Punct

\* str.upper() on one character
UpperOf ==
  [c \in Chars |-> IF c \in Lower
                   THEN UpperSeq[CHOOSE i \in 1..26 : LowerSeq[i] = c]
                   ELSE c]

\* str.lower() on one character
LowerOf ==
  [c \in Chars |-> IF c \in Upper
                   THEN LowerSeq[CHOOSE i \in 1..26 : UpperSeq[i] = c]
                   ELSE c]

\* str.upper()
ToUpper(s) == [i \in 1..Len(s) |-> UpperOf[s[i]]]

\* str.lower()
ToLower(s) == [i \in 1..Len(s) |-> LowerOf[s[i]]]

\* s[a:b] of Python, for 0 <= a and b <= len(s)
Slice(s, a, b) == IF b <= a THEN <<>> ELSE SubSeq(s, a + 1, b)

\* the least i in a..b with s[i] not in cs, or b + 1
FirstNotIn(s, cs, a, b) ==
  IF \A i \in a..b : s[i] \in cs THEN b + 1
  ELSE CHOOSE i \in a..b : s[i] \notin cs /\ \A j \in a..(i - 1) : s[j] \in cs

\* the greatest i in a..b with s[i] not in cs, or a - 1
LastNotIn(s, cs, a, b) ==
  IF \A i \in a..b : s[i] \in cs THEN a - 1
  ELSE CHOOSE i \in a..b : s[i] \notin cs /\ \A j \in (i + 1)..b : s[j] \in cs

\* str.lstrip(), of the characters cs
LStripOf(s, cs) == SubSeq(s, FirstNotIn(s, cs, 1, Len(s)), Len(s))

\* str.strip()
Strip(s) ==
  SubSeq(s, FirstNotIn(s, Space, 1, Len(s)), LastNotIn(s, Space, 1, Len(s)))

\* the characters of s that are in keep, in order
Filter(s, keep) == SelectSeq(s, LAMBDA c : c \in keep)

\* re.sub(r"\s+", " ", s): a whitespace character after another is dropped
CollapseWs(s) ==
  LET marked == [i \in 1..Len(s) |->
                   IF s[i] \notin Space THEN s[i]
                   ELSE IF i > 1 /\ s[i - 1] \in Space THEN "" ELSE " "]
  IN SelectSeq(marked, LAMBDA c : c # "")

\* str.startswith(p)
StartsWith(s, p) == Len(s) >= Len(p) /\ SubSeq(s, 1, Len(p)) = p

(***************************************************************************)
(* Regular expressions (module re), all compiled with re.I.  A pattern is  *)
(* a sequence of items:                                                    *)
(*   lit   a literal text, matched in either case                          *)
(*   cls   a character class repeated lo..hi times, greedy or lazy         *)
(*   open  the start of capture group g;  close  its end                   *)
(*   alt   alternatives, each a pattern, tried in order                    *)
(*   wb    the word boundary \b                                            *)
(* re backtracks: at each item it takes the first option, in the item's    *)
(* priority order, with which the rest of the pattern can still match.     *)
(* Whether the rest can match from a position does not depend on what was  *)
(* matched before (the patterns have no back-references), so Suffixes      *)
(* first computes, from the last item to the first, the positions from     *)
(* which the rest matches, and Walk then takes re's choices left to        *)
(* right.  Positions are Python offsets, 0 .. len(text).                   *)
(***************************************************************************)
Lit(s) == [t |-> "lit", s |-> ToUpper(s)]
Cls(cs, lo, hi) == [t |-> "cls", cs |-> cs, lo |-> lo, hi |-> hi, lazy |-> FALSE]
LazyCls(cs, lo, hi) == [t |-> "cls", cs |-> cs, lo |-> lo, hi |-> hi, lazy |-> TRUE]
Open(g) == [t |-> "open", g |-> g]
Close(g) == [t |-> "close", g |-> g]
Alt(alts) == [t |-> "alt", alts |-> alts]
Opt(p) == Alt(<<p, <<>>>>)
WordB == [t |-> "wb"]
\* an unbounded repetition: no text of the model is longer
Inf == 1000

\* the characters of \w among Chars
WordChars == Letter \cup Digit

NoGroups == [g \in 1..6 |-> <<-1, -1>>]
NoMatch == [ok |-> FALSE, start |-> -1, end |-> -1, caps |-> NoGroups]

SetMin(S) == CHOOSE x \in S : \A y \in S : x <= y
SetMax(S) == CHOOSE x \in S : \A y \in S : x >= y

\* how many characters from offset pos on are in cs, at most hi
RunLen(text, cs, pos, hi) ==
  LET last == IF pos + hi < Len(text) THEN pos + hi ELSE Len(text)
  IN FirstNotIn(text, cs, pos + 1, last) - (pos + 1)

AtWordBoundary(text, pos) ==
  LET before == pos > 0 /\ text[pos] \in WordChars
      after == pos < Len(text) /\ text[pos + 1] \in WordChars
  IN before # after

LitAt(text, s, pos) ==
  /\ pos >= 0
  /\ pos + Len(s) <= Len(text)
  /\ \A i \in 1..Len(s) : UpperOf[text[pos + i]] = s[i]

\* the positions p from which lo..hi characters of cs lead to q
BeforeCls(text, it, q) ==
  LET first == IF q - it.hi + 1 > 1 THEN q - it.hi + 1 ELSE 1
  IN LastNotIn(text, it.cs, first, q)..(q - it.lo)

RECURSIVE Suffixes(_, _, _, _)
RECURSIVE BeforeItem(_, _, _)

\* the positions from which item it matches and ends in cont
BeforeItem(text, it, cont) ==
  CASE it.t = "lit" -> {q - Len(it.s) : q \in {r \in cont : LitAt(text, it.s, r - Len(it.s))}}
    [] it.t = "cls" -> UNION {BeforeCls(text, it, q) : q \in cont}
    [] it.t = "open" -> cont
    [] it.t = "close" -> cont
    [] it.t = "wb" -> {q \in cont : AtWordBoundary(text, q)}
    [] it.t = "alt" ->
         UNION {Suffixes(text, it.alts[i], Len(it.alts[i]), <<cont>>)[1] : i \in 1..Len(it.alts)}

\* Suffixes, b being the positions from which item k matches
SuffixesOn(text, pat, k, acc, b) ==
  IF b = {} THEN [i \in 1..k |-> {}] \o acc
  ELSE Suffixes(text, pat, k - 1, <<b>> \o acc)

\* <<B[1], ..., B[n+1]>> for the n items of pat: B[k] is the set of positions
\* from which the items k..n match and end in cont.  acc holds B[k+1..n+1].
Suffixes(text, pat, k, acc) ==
  IF k = 0 THEN acc
  ELSE SuffixesOn(text, pat, k, acc, BeforeItem(text, pat[k], Head(acc)))

\* the positions from which pat matches and ends in cont
Starts(text, pat, cont) == Suffixes(text, pat, Len(pat), <<cont>>)[1]

\* the repetition count re takes among those after which the rest matches:
\* the most if greedy, the fewest if lazy
ClsChoice(it, good) == IF it.lazy THEN SetMin(good) ELSE SetMax(good)

RECURSIVE Walk(_, _, _, _, _)
RECURSIVE WalkItem(_, _, _, _, _)

\* re's choice at item it from pos, the rest matching from the positions
\* cont: <<end, caps>>
WalkItem(text, it, cont, pos, caps) ==
  CASE it.t = "lit" -> <<pos + Len(it.s), caps>>
    [] it.t = "cls" ->
         <<pos + ClsChoice(it, {c \in it.lo..RunLen(text, it.cs, pos, it.hi) : pos + c \in cont}),
           caps>>
    [] it.t = "open" -> <<pos, [caps EXCEPT ![it.g] = <<pos, -1>>]>>
    [] it.t = "close" -> <<pos, [caps EXCEPT ![it.g] = <<caps[it.g][1], pos>>]>>
    [] it.t = "wb" -> <<pos, caps>>
    [] it.t = "alt" ->
         \* the first alternative from which the rest matches
         Walk(text,
              it.alts[SetMin({i \in 1..Len(it.alts) : pos \in Starts(text, it.alts[i], cont)})],
              <<cont>>, 0, <<pos, caps>>)

\* the match of the items k.. of pat from r[1], a position of B[k], with the
\* groups r[2]: <<end, caps>>.  k = 0 first computes B for the pattern, to
\* end in the positions B[1].  The walk goes on while the rest matches.
Walk(text, pat, B, k, r) ==
  IF k = 0 THEN Walk(text, pat, Suffixes(text, pat, Len(pat), B), 1, r)
  ELSE IF k > Len(pat) \/ r[1] \notin B[k] THEN r
  ELSE Walk(text, pat, B, k + 1, WalkItem(text, pat[k], B[k + 1], r[1], r[2]))

\* the positions from which pat matches, per item
Reach(pat, text) == Suffixes(text, pat, Len(pat), <<0..Len(text)>>)

\* the match from offset from that ends at r[1] with the groups r[2]
MatchOf(from, r) == [ok |-> TRUE, start |-> from, end |-> r[1], caps |-> r[2]]

\* the match of pat at offset from, given B = Reach(pat, text)
MatchWith(pat, text, B, from) ==
  IF from \notin B[1] THEN NoMatch
  ELSE MatchOf(from, Walk(text, pat, B, 1, <<from, NoGroups>>))

\* re.match(pat, text[from:]), with offsets of text
ReMatch(pat, text, from) == MatchWith(pat, text, Reach(pat, text), from)

\* the match at the least of the offsets at, if any
MatchLeftmost(pat, text, B, at) ==
  IF at = {} THEN NoMatch ELSE MatchWith(pat, text, B, SetMin(at))

\* the leftmost match at or after offset from, given B = Reach(pat, text)
SearchWith(pat, text, B, from) == MatchLeftmost(pat, text, B, {p \in B[1] : p >= from})

\* re.search(pat, text)
ReSearch(pat, text) == SearchWith(pat, text, Reach(pat, text), 0)

RECURSIVE FindIterFrom(_, _, _, _)

\* the match r and the matches after it.  After an empty match the scan
\* moves one character on.
FindIterNext(pat, text, B, r) ==
  IF ~r.ok THEN <<>>
  ELSE <<r>> \o FindIterFrom(pat, text, B, IF r.end > r.start THEN r.end ELSE r.end + 1)

\* the non-overlapping matches from offset from on, left to right
FindIterFrom(pat, text, B, from) == FindIterNext(pat, text, B, SearchWith(pat, text, B, from))

\* list(re.finditer(pat, text))
FindIter(pat, text) == FindIterFrom(pat, text, Reach(pat, text), 0)

\* whether m.group(g) is not None
HasGroup(m, g) == m.caps[g][1] >= 0 /\ m.caps[g][2] >= 0

\* m.group(g), the empty string for a group that took no part
Group(text, m, g) ==
  IF HasGroup(m, g) THEN Slice(text, m.caps[g][1], m.caps[g][2]) ELSE <<>>

(***************************************************************************)
(* Decimal arithmetic on digit sequences: float(s) and int(f) of Python,   *)
(* with the 53-bit significand of a double.  A number is a sequence of     *)
(* digits 0..9, most significant first.                                    *)
(***************************************************************************)
DigitVal(c) == (CHOOSE i \in 1..10 : DigitSeq[i] = c) - 1
DigitChr(d) == DigitSeq[d + 1]

\* the significand of a double, in bits
MantBits == 53
\* the decimal digits of a finite double's integer part are at most this many
MaxDoubleDigits == 309
\* 2^1024 - 2^970: from here on float() gives inf
OverflowFrom ==
  <<"1", "7", "9", "7", "6", "9", "3", "1", "3", "4", "8", "6", "2", "3", "1", "5", "8", "0", "7", "9", "3", "7", "2", "8", "9", "7", "1", "4", "0", "5", "3", "0", "3", "4", "1", "5", "0", "7", "9", "9", "3", "4", "1", "3", "2", "7", "1", "0", "0", "3", "7", "8", "2", "6", "9", "3", "6", "1", "7", "3", "7", "7", "8", "9", "8", "0", "4", "4", "4", "9", "6", "8", "2", "9", "2", "7", "6", "4", "7", "5", "0", "9", "4", "6", "6", "4", "9", "0", "1", "7", "9", "7", "7", "5", "8", "7", "2", "0", "7", "0", "9", "6", "3", "3", "0", "2", "8", "6", "4", "1", "6", "6", "9", "2", "8", "8", "7", "9", "1", "0", "9", "4", "6", "5", "5", "5", "5", "4", "7", "8", "5", "1", "9", "4", "0", "4", "0", "2", "6", "3", "0", "6", "5", "7", "4", "8", "8", "6", "7", "1", "5", "0", "5", "8", "2", "0", "6", "8", "1", "9", "0", "8", "9", "0", "2", "0", "0", "0", "7", "0", "8", "3", "8", "3", "6", "7", "6", "2", "7", "3", "8", "5", "4", "8", "4", "5", "8", "1", "7", "7", "1", "1", "5", "3", "1", "7", "6", "4", "4", "7", "5", "7", "3", "0", "2", "7", "0", "0", "6", "9", "8", "5", "5", "5", "7", "1", "3", "6", "6", "9", "5", "9", "6", "2", "2", "8", "4", "2", "9", "1", "4", "8", "1", "9", "8", "6", "0", "8", "3", "4", "9", "3", "6", "4", "7", "5", "2", "9", "2", "7", "1", "9", "0", "7", "4", "1", "6", "8", "4", "4", "4", "3", "6", "5", "5", "1", "0", "7", "0", "4", "3", "4", "2", "7", "1", "1", "5", "5", "9", "6", "9", "9", "5", "0", "8", "0", "9", "3", "0", "4", "2", "8", "8", "0", "1", "7", "7", "9", "0", "4", "1", "7", "4", "4", "9", "7", "7", "9", "2">>

\* the digits without leading zeros (empty for zero)
DropZeros(ds) == SubSeq(ds, FirstNotIn(ds, {0}, 1, Len(ds)), Len(ds))

IsZero(ds) == \A i \in 1..Len(ds) : ds[i] = 0

\* arithmetic goes 16 bits at a time
Chunk == 16
Radix == 65536

RECURSIVE DivFrom(_, _, _)
\* ds divided by Radix from digit i on, with remainder rem carried in:
\* <<quotient digits, remainder>>
DivFrom(ds, i, rem) ==
  IF i > Len(ds) THEN <<<<>>, rem>>
  ELSE LET cur == rem * 10 + ds[i]
           rest == DivFrom(ds, i + 1, cur % Radix)
       IN <<<<cur \div Radix>> \o rest[1], rest[2]>>

RECURSIVE MulFrom(_, _, _)
\* ds * Radix + c over the digits 1..i: <<carry out of digit 1, digits 1..i>>
MulFrom(ds, i, c) ==
  IF i = 0 THEN <<c, <<>>>>
  ELSE LET v == ds[i] * Radix + c
           rest == MulFrom(ds, i - 1, v \div 10)
       IN <<rest[1], rest[2] \o <<v % 10>>>>

\* the Chunk binary digits of v < Radix, most significant first
ChunkBits(v) == [j \in 1..Chunk |-> (v \div (2 ^ (Chunk - j))) % 2]

\* the value of at most Chunk binary digits
BitsVal(bits) == IF Len(bits) = 0 THEN 0
                 ELSE LET w == [j \in 1..Len(bits) |-> bits[j] * 2 ^ (Len(bits) - j)]
                          sum[j \in 0..Len(bits)] == IF j = 0 THEN 0 ELSE sum[j - 1] + w[j]
                      IN sum[Len(bits)]

\* the decimal digits of a value below 10 * Radix, without leading zeros
SmallDigits(v) == DropZeros([j \in 1..6 |-> (v \div (10 ^ (6 - j))) % 10])

RECURSIVE ToBitsPadded(_)
\* the binary digits of the integer ds, in whole chunks
ToBitsPadded(ds) ==
  IF IsZero(ds) THEN <<>>
  ELSE LET h == DivFrom(ds, 1, 0) IN ToBitsPadded(DropZeros(h[1])) \o ChunkBits(h[2])

\* the binary digits of the integer ds, most significant first (empty for zero)
ToBits(ds) == DropZeros(ToBitsPadded(ds))

RECURSIVE FromBitsPadded(_)
\* the decimal digits of the integer with these binary digits, whole chunks
FromBitsPadded(bits) ==
  IF Len(bits) = 0 THEN <<>>
  ELSE LET high == FromBitsPadded(SubSeq(bits, 1, Len(bits) - Chunk))
           m == MulFrom(high, Len(high), BitsVal(SubSeq(bits, Len(bits) - Chunk + 1, Len(bits))))
       IN DropZeros(SmallDigits(m[1]) \o m[2])

\* the decimal digits of the integer with these binary digits
FromBits(bits) ==
  FromBitsPadded([j \in 1..((Chunk - (Len(bits) % Chunk)) % Chunk) |-> 0] \o bits)

RECURSIVE FracBits(_, _)
\* the first n binary digits of the fraction 0.fs, and the fraction left:
\* <<bits, digits left>>
FracBits(fs, n) ==
  IF n <= 0 THEN <<<<>>, fs>>
  ELSE LET m == MulFrom(fs, Len(fs), 0)
           rest == FracBits(m[2], n - Chunk)
       IN <<ChunkBits(m[1]) \o rest[1], rest[2]>>

\* bits + 1
IncBits(bits) ==
  LET z == LastNotIn(bits, {1}, 1, Len(bits))
  IN IF z = 0 THEN <<1>> \o [j \in 1..Len(bits) |-> 0]
     ELSE [j \in 1..Len(bits) |-> IF j < z THEN bits[j] ELSE IF j = z THEN 1 ELSE 0]

\* bits + 1 when up
RoundUpIf(bits, up) == IF up THEN IncBits(bits) ELSE bits

\* more than MantBits binary digits ib before the point: the first MantBits
\* rounded on the next one (ties to even), the rest zero
RoundLong(ib, fs) ==
  RoundUpIf(SubSeq(ib, 1, MantBits),
            /\ ib[MantBits + 1] = 1
            /\ \/ \E i \in (MantBits + 2)..Len(ib) : ib[i] = 1
               \/ ~IsZero(fs)
               \/ ib[MantBits] = 1)
  \o [i \in 1..(Len(ib) - MantBits) |-> 0]

\* at most MantBits binary digits ib before the point, and fb = <<the first
\* binary digits after it, the fraction left>>, of which need - 1 digits
\* complete the significand: rounding up reaches ib when they are all 1
RoundShort(ib, fb, need) ==
  RoundUpIf(ib,
            /\ fb[1][need] = 1
            /\ \/ \E i \in (need + 1)..Len(fb[1]) : fb[1][i] = 1
               \/ ~IsZero(fb[2])
               \/ (IF need > 1 THEN fb[1][need - 1] ELSE ib[Len(ib)]) = 1
            /\ \A i \in 1..(need - 1) : fb[1][i] = 1)

\* the binary digits of int(float(x)) for x with the binary digits ib before
\* the point and the decimal digits fs after it
RoundBits(ib, fs) ==
  IF Len(ib) > MantBits THEN RoundLong(ib, fs)
  ELSE RoundShort(ib, FracBits(fs, MantBits - Len(ib) + 1), MantBits - Len(ib) + 1)

\* int(float(x)) for x = is.fs >= 0: x rounded to the nearest double (ties to
\* even), then truncated.  The digits of the result (empty for zero).
RoundTrunc(is, fs) == FromBits(RoundBits(ToBits(DropZeros(is)), fs))

\* a < b for digit sequences of one length
DigitsLess(a, b) ==
  \E i \in 1..Len(a) : a[i] < b[i] /\ \A j \in 1..(i - 1) : a[j] = b[j]

\* whether float() of a number with the integer part d, without leading
\* zeros, gives inf
OverflowsDigits(d) ==
  \/ Len(d) > MaxDoubleDigits
  \/ /\ Len(d) = MaxDoubleDigits
     /\ ~DigitsLess(d, [i \in 1..MaxDoubleDigits |-> DigitVal(OverflowFrom[i])])

Overflows(is) == OverflowsDigits(DropZeros(is))

\* the value of a sequence of at most 4 digits
SmallNat(ds) ==
  LET p == [j \in 1..4 |-> IF j <= Len(ds) THEN ds[j] * 10 ^ (Len(ds) - j) ELSE 0]
  IN p[1] + p[2] + p[3] + p[4]

\* what float() accepts of the texts over Chars, but for inf and nan:
\* [sign] digits [. digits] [e [sign] digits]
FloatPat ==
  << Open(1), Cls({"+", "-"}, 0, 1), Close(1),
     Open(2), Cls(Digit, 0, Inf), Close(2),
     Opt(<<Lit(<<".">>), Open(3), Cls(Digit, 0, Inf), Close(3)>>),
     Opt(<<Lit(<<"E">>), Open(4), Cls({"+", "-"}, 0, 1), Close(4),
           Open(5), Cls(Digit, 1, Inf), Close(5)>>) >>

InfNanWords == {<<"i", "n", "f">>, <<"i", "n", "f", "i", "n", "i", "t", "y">>, <<"n", "a", "n">>}

DigitVals(s) == [i \in 1..Len(s) |-> DigitVal(s[i])]

NoFloat == [ok |-> FALSE, out |-> <<>>]

\* str(i) for the integer of digits val (empty for zero), negative when neg
FloatText(neg, val) ==
  [ok |-> TRUE,
   out |-> IF Len(val) = 0 THEN <<"0">>
           ELSE (IF neg THEN <<"-">> ELSE <<>>) \o [i \in 1..Len(val) |-> DigitChr(val[i])]]

\* the digits before the decimal point of id.fd * 10^e (10^-e when eneg)
IntDigits(id, fd, e, eneg) ==
  IF eneg THEN (IF e >= Len(id) THEN <<>> ELSE SubSeq(id, 1, Len(id) - e))
  ELSE id \o (IF e >= Len(fd) THEN fd \o [i \in 1..(e - Len(fd)) |-> 0]
                              ELSE SubSeq(fd, 1, e))

\* the digits after the decimal point of id.fd * 10^e (10^-e when eneg)
FracDigits(id, fd, e, eneg) ==
  IF eneg THEN (IF e >= Len(id) THEN [i \in 1..(e - Len(id)) |-> 0] \o id
                               ELSE SubSeq(id, Len(id) - e + 1, Len(id))) \o fd
  ELSE (IF e >= Len(fd) THEN <<>> ELSE SubSeq(fd, e + 1, Len(fd)))

\* is.fs as a float, then an int: OverflowError when the float is inf
FloatOfFixed(neg, is, fs) ==
  IF Overflows(is) THEN NoFloat ELSE FloatText(neg, RoundTrunc(is, fs))

\* the number id.fd E ed (E -ed when eneg).  An exponent of more than 4
\* digits overflows to inf or underflows to 0.
FloatOfParts(neg, id, fd, ed, eneg) ==
  IF Len(id) = 0 /\ Len(fd) = 0 THEN NoFloat
  ELSE IF IsZero(id) /\ IsZero(fd) THEN FloatText(neg, <<>>)
  ELSE IF Len(ed) > 4 THEN (IF eneg THEN FloatText(neg, <<>>) ELSE NoFloat)
  ELSE FloatOfFixed(neg, IntDigits(id, fd, SmallNat(ed), eneg),
                    FracDigits(id, fd, SmallNat(ed), eneg))

\* s, matched by FloatPat as m, as a float, then an int
FloatOfMatch(s, m) ==
  IF ~m.ok \/ m.end # Len(s) THEN NoFloat
  ELSE FloatOfParts(Group(s, m, 1) = <<"-">>,
                    DigitVals(Group(s, m, 2)),
                    DigitVals(Group(s, m, 3)),
                    DropZeros(DigitVals(Group(s, m, 5))),
                    Group(s, m, 4) = <<"-">>)

\* str(int(float(s))) for s without surrounding whitespace: ok is FALSE where
\* float(s) raises ValueError or int(f) raises (f is inf or nan); out is the
\* decimal text otherwise
FloatInt(s) ==
  IF ToLower(IF Len(s) > 0 /\ s[1] \in {"+", "-"} THEN Tail(s) ELSE s) \in InfNanWords
  THEN NoFloat
  ELSE FloatOfMatch(s, ReMatch(FloatPat, s, 0))

(***************************************************************************)
(* The common helpers: one normalizer per kind of field.                   *)
(***************************************************************************)

\* re.sub(r"\.0+$", "", s): the leftmost "." followed by zeros to the end
StripDotZeros(s) ==
  LET hits == {i \in 1..Len(s) : /\ s[i] = "."
                                 /\ i < Len(s)
                                 /\ \A j \in (i + 1)..Len(s) : s[j] = "0"}
  IN IF hits = {} THEN s
     ELSE SubSeq(s, 1, (CHOOSE i \in hits : \A j \in hits : i <= j) - 1)

\* the except branch of normalize_register: every digit of s, joined,
\* without leading zeros; s without a trailing ".0" when it has no digit
RegisterFallback(s) ==
  LET digits == Filter(s, Digit)
  IN IF Len(digits) > 0 THEN LStripOf(digits, {"0"}) ELSE StripDotZeros(s)

\* the try and the except of normalize_register, f being str(int(float(s)))
RegisterOf(s, f) == IF f.ok THEN f.out ELSE RegisterFallback(s)

\* normalize_register on the stripped text s
RegisterOfStripped(s) ==
  IF s \in {<<>>, <<"n", "a", "n">>, <<"N", "o", "n", "e">>} THEN <<>> ELSE RegisterOf(s, FloatInt(s))

normalize_register(v) == RegisterOfStripped(Strip(v))

normalize_name(name) == ToUpper(Strip(CollapseWs(name)))

normalize_text(txt) == ToUpper(Strip(CollapseWs(txt)))

normalize_gender(g) ==
  LET u == ToUpper(Strip(g))
  IN IF StartsWith(u, <<"M">>) THEN <<"M", "A", "L", "E">>
     ELSE IF StartsWith(u, <<"F">>) THEN <<"F", "E", "M", "A", "L", "E">>
     ELSE u

\* the directives of datetime.strptime, as _strptime compiles them
DirD == <<Open(3), Alt(<< <<Lit(<<"3">>), Cls({"0", "1"}, 1, 1)>>,
                          <<Cls({"1", "2"}, 1, 1), Cls(Digit, 1, 1)>>,
                          <<Lit(<<"0">>), Cls(Digit \ {"0"}, 1, 1)>>,
                          <<Cls(Digit \ {"0"}, 1, 1)>>,
                          <<Lit(<<" ">>), Cls(Digit \ {"0"}, 1, 1)>> >>), Close(3)>>
DirM == <<Open(2), Alt(<< <<Lit(<<"1">>), Cls({"0", "1", "2"}, 1, 1)>>,
                          <<Lit(<<"0">>), Cls(Digit \ {"0"}, 1, 1)>>,
                          <<Cls(Digit \ {"0"}, 1, 1)>> >>), Close(2)>>
DirY == <<Open(1), Cls(Digit, 4, 4), Close(1)>>
MonthAbbr == <<<<"J", "a", "n">>, <<"F", "e", "b">>, <<"M", "a", "r">>, <<"A", "p", "r">>, <<"M", "a", "y">>, <<"J", "u", "n">>,
               <<"J", "u", "l">>, <<"A", "u", "g">>, <<"S", "e", "p">>, <<"O", "c", "t">>, <<"N", "o", "v">>, <<"D", "e", "c">>>>
DirB == <<Open(2), Alt([i \in 1..12 |-> <<Lit(MonthAbbr[i])>>]), Close(2)>>

\* the formats normalize_dob tries, in its order; named is whether the month
\* is a name (%b)
DobFormats ==
  << [pat |-> DirY \o <<Lit(<<"-">>)>> \o DirM \o <<Lit(<<"-">>)>> \o DirD, named |-> FALSE],
     [pat |-> DirD \o <<Lit(<<"-">>)>> \o DirB \o <<Lit(<<"-">>)>> \o DirY, named |-> TRUE],
     [pat |-> DirD \o <<Lit(<<"/">>)>> \o DirB \o <<Lit(<<"/">>)>> \o DirY, named |-> TRUE],
     [pat |-> DirD \o <<Lit(<<"/">>)>> \o DirM \o <<Lit(<<"/">>)>> \o DirY, named |-> FALSE],
     [pat |-> DirD \o <<Lit(<<"-">>)>> \o DirM \o <<Lit(<<"-">>)>> \o DirY, named |-> FALSE] >>

IsLeap(y) == y % 4 = 0 /\ (y % 100 # 0 \/ y % 400 = 0)

DaysIn(y, mo) ==
  IF mo = 2 THEN (IF IsLeap(y) THEN 29 ELSE 28)
  ELSE IF mo \in {4, 6, 9, 11} THEN 30 ELSE 31

NoDate == [ok |-> FALSE, y |-> 0, m |-> 0, d |-> 0]

\* the date of year y, month mo, day d, if there is one
DateOf(y, mo, d) ==
  IF y < 1 \/ d > DaysIn(y, mo) THEN NoDate ELSE [ok |-> TRUE, y |-> y, m |-> mo, d |-> d]

\* the month of mtxt, its name (%b) or its number (%m)
MonthOf(named, mtxt) ==
  IF named THEN CHOOSE i \in 1..12 : ToUpper(MonthAbbr[i]) = mtxt
  ELSE SmallNat(DigitVals(mtxt))

\* the date of dob matched as m by the pattern of a format
DateOfMatch(dob, named, m) ==
  IF ~m.ok \/ m.end # Len(dob) THEN NoDate
  ELSE DateOf(SmallNat(DigitVals(Group(dob, m, 1))),
              MonthOf(named, ToUpper(Group(dob, m, 2))),
              SmallNat(DigitVals(Filter(Group(dob, m, 3), Digit))))

\* datetime.strptime(dob, fmt): ok is FALSE where it raises ValueError (no
\* match, unconverted data, or no such date)
Strptime(dob, fmt) == DateOfMatch(dob, fmt.named, ReMatch(fmt.pat, dob, 0))

\* the decimal text of the digit values ds
DigitText(ds) == [i \in 1..Len(ds) |-> DigitChr(ds[i])]

\* d.strftime("%d-%b-%Y"): the day on two digits, the year unpadded (glibc)
Strftime(t) ==
  <<DigitChr(t.d \div 10), DigitChr(t.d % 10), "-">> \o MonthAbbr[t.m] \o <<"-">>
  \o DigitText(SmallDigits(t.y))

RECURSIVE FirstDate(_, _, _)
\* the try of normalize_dob for the i-th format, t being the parsed date
DateOr(s, fmts, i, t) == IF t.ok THEN Strftime(t) ELSE FirstDate(s, fmts, i + 1)

\* the loop of normalize_dob from the i-th of the formats fmts on: the first
\* that parses s, else s as it is
FirstDate(s, fmts, i) ==
  IF i > Len(fmts) THEN s ELSE DateOr(s, fmts, i, Strptime(s, fmts[i]))

\* normalize_dob on the stripped text s
DobOfStripped(s) == IF s = <<>> \/ ToLower(s) = <<"n", "a", "n">> THEN <<>> ELSE FirstDate(s, DobFormats, 1)

normalize_dob(dob) == DobOfStripped(Strip(dob))

\* [A-Za-z0-9\-\(\)\:\,\/\s&], what a subject name keeps
SubjectChars == Letter \cup Digit \cup Space \cup {"-", "(", ")", ":", ",", "/", "&"}

normalize_subject_name_after_extraction(name) ==
  LET noStars == Filter(name, Chars \ Stars)
      kept == Filter(noStars, SubjectChars)
  IN ToUpper(Strip(CollapseWs(kept)))

normalize_result(value) ==
  LET v == ToUpper(Strip(value))
  IN IF v = <<"F">> THEN <<"R", "A">>
     ELSE IF v = <<"P">> THEN <<"P", "A", "S", "S">>
     ELSE v

(***************************************************************************)
(* Phase 1: student info from the text of the PDF.                         *)
(***************************************************************************)
Ws0 == Cls(Space, 0, Inf)
Ws1 == Cls(Space, 1, Inf)

\* r"UMIS\s*No\.?\s*[:\-]?\s*"
UmisSplitPat ==
  <<Lit(<<"U", "M", "I", "S">>), Ws0, Lit(<<"N", "o">>), Cls({"."}, 0, 1), Ws0, Cls({":", "-"}, 0, 1), Ws0>>

\* r"(\d{10,20})"
UmisNoPat == <<Open(1), Cls(Digit, 10, 20), Close(1)>>

\* r"REGISTER\s*NO\.?\s*[:\-]?\s*([0-9]{9,15})", the end of both name patterns
RegisterNoTail ==
  <<Lit(<<"R", "E", "G", "I", "S", "T", "E", "R">>), Ws0, Lit(<<"N", "O">>), Cls({"."}, 0, 1), Ws0, Cls({":", "-"}, 0, 1), Ws0,
    Open(2), Cls(Digit, 9, 15), Close(2)>>

\* [A-Z\.\s] under re.I
NameChars == Letter \cup {"."} \cup Space

\* r"NAME\s+OF\s+THE\s+(?:CANDIDATE\s+)?([A-Z\.\s]+?)\s+REGISTER..."
NameRegPat ==
  <<Lit(<<"N", "A", "M", "E">>), Ws1, Lit(<<"O", "F">>), Ws1, Lit(<<"T", "H", "E">>), Ws1,
    Opt(<<Lit(<<"C", "A", "N", "D", "I", "D", "A", "T", "E">>), Ws1>>),
    Open(1), LazyCls(NameChars, 1, Inf), Close(1), Ws1>> \o RegisterNoTail

\* r"NAME\s+OF\s+THE\s+([A-Z\.\s]+?)\s+CANDIDATE\s+REGISTER..."
NameRegPatAlt ==
  <<Lit(<<"N", "A", "M", "E">>), Ws1, Lit(<<"O", "F">>), Ws1, Lit(<<"T", "H", "E">>), Ws1,
    Open(1), LazyCls(NameChars, 1, Inf), Close(1), Ws1,
    Lit(<<"C", "A", "N", "D", "I", "D", "A", "T", "E">>), Ws1>> \o RegisterNoTail

\* r"DATE\s+OF\s+BIRTH\s*[:\-]?\s*([0-9]{1,2}[-/][A-Za-z]{3,}[-/][0-9]{2,4})"
DobPat ==
  <<Lit(<<"D", "A", "T", "E">>), Ws1, Lit(<<"O", "F">>), Ws1, Lit(<<"B", "I", "R", "T", "H">>), Ws0, Cls({":", "-"}, 0, 1), Ws0,
    Open(1), Cls(Digit, 1, 2), Cls({"-", "/"}, 1, 1), Cls(Letter, 3, Inf),
    Cls({"-", "/"}, 1, 1), Cls(Digit, 2, 4), Close(1)>>

\* r"GENDER\s*[:\-]?\s*([A-Za-z]+)"
GenderPat ==
  <<Lit(<<"G", "E", "N", "D", "E", "R">>), Ws0, Cls({":", "-"}, 0, 1), Ws0, Open(1), Cls(Letter, 1, Inf), Close(1)>>

\* r"PROGRAMME\s*&?\s*B\.?(?:E|TECH)\.?\s*([A-Z\s]+?)\s+REGULATIONS"
ProgPat ==
  <<Lit(<<"P", "R", "O", "G", "R", "A", "M", "M", "E">>), Ws0, Cls({"&"}, 0, 1), Ws0, Lit(<<"B">>), Cls({"."}, 0, 1),
    Alt(<< <<Lit(<<"E">>)>>, <<Lit(<<"T", "E", "C", "H">>)>> >>), Cls({"."}, 0, 1), Ws0,
    Open(1), LazyCls(Letter \cup Space, 1, Inf), Close(1), Ws1, Lit(<<"R", "E", "G", "U", "L", "A", "T", "I", "O", "N", "S">>)>>

\* the text of all pages, whitespace collapsed (app.py:73)
CleanText(all_text) == CollapseWs(Strip(all_text))

\* the matches of the UMIS label in the text: re.split cuts at each
UmisAnchors(clean_text) == FindIter(UmisSplitPat, clean_text)

\* the spans <<a, b>> of the texts before, between and after the matches ms
\* in text
SpansBetween(ms, text) ==
  [i \in 1..(Len(ms) + 1) |->
     <<IF i = 1 THEN 0 ELSE ms[i - 1].end,
       IF i > Len(ms) THEN Len(text) ELSE ms[i].start>>] \o <<>>

\* the spans of the pieces re.split(pat, text) gives
SplitSpans(pat, text) == SpansBetween(FindIter(pat, text), text)

\* the texts of the spans
Slices(text, spans) == [i \in 1..Len(spans) |-> Slice(text, spans[i][1], spans[i][2])] \o <<>>

\* re.split(pat, text), for a pattern without groups
ReSplit(pat, text) == Slices(text, SplitSpans(pat, text))

\* blocks[1:] of extract_pdf_students
StudentBlocks(clean_text) == Tail(ReSplit(UmisSplitPat, clean_text))

\* the text "None" for no match
MatchedOrNone(m, x) == IF m.ok THEN x ELSE <<"N", "o", "n", "e">>

\* x if m else ""
MatchedOrEmpty(m, x) == IF m.ok THEN x ELSE <<>>

\* m.group(g) if m else ""
GroupOrEmpty(text, m, g) == MatchedOrEmpty(m, Group(text, m, g))

\* name_reg: the second pattern is tried where the first finds nothing
NameRegOr(rest, first) == IF first.ok THEN first ELSE ReSearch(NameRegPatAlt, rest)

\* the dictionary appended for one block
StudentFields(umis_no, rest, name_reg, dob_match, gender_match, prog_match) ==
  [UMIS_NO |-> umis_no,
   REGISTER_NO |-> normalize_register(GroupOrEmpty(rest, name_reg, 2)),
   NAME |-> normalize_name(GroupOrEmpty(rest, name_reg, 1)),
   DOB |-> MatchedOrEmpty(dob_match, normalize_dob(Group(rest, dob_match, 1))),
   GENDER |-> MatchedOrEmpty(gender_match, normalize_gender(Group(rest, gender_match, 1))),
   PROGRAMME |-> MatchedOrEmpty(prog_match, normalize_text(Group(rest, prog_match, 1)))]

\* the searches in rest, the block after its UMIS number
StudentOfRest(umis_no, rest) ==
  StudentFields(umis_no, rest,
                NameRegOr(rest, ReSearch(NameRegPat, rest)),
                ReSearch(DobPat, rest),
                ReSearch(GenderPat, rest),
                ReSearch(ProgPat, rest))

\* rest = blk[len(umis_no):].strip()
StudentOfUmis(blk, umis_no) ==
  StudentOfRest(umis_no, Strip(Slice(blk, Len(umis_no), Len(blk))))

\* the body of the loop of extract_pdf_students: the record of one block
StudentRecord(blk) == StudentOfUmis(blk, GroupOrEmpty(blk, ReMatch(UmisNoPat, blk, 0), 1))

\* the records of the blocks, in their order
StudentRecords(blocks) == [i \in 1..Len(blocks) |-> StudentRecord(blocks[i])] \o <<>>

\* extract_pdf_students: one record per block
extract_pdf_students(all_text) == StudentRecords(StudentBlocks(CleanText(all_text)))

(***************************************************************************)
(* Phase 2: course records from the text of the PDF.                       *)
(***************************************************************************)
\* r"(REGISTER\s*NO\.?\s*:?\s*([0-9A-Za-z\.\-E\+]+))"
RegAnchorPat ==
  <<Open(1), Lit(<<"R", "E", "G", "I", "S", "T", "E", "R">>), Ws0, Lit(<<"N", "O">>), Cls({"."}, 0, 1), Ws0, Cls({":"}, 0, 1), Ws0,
    Open(2), Cls(Digit \cup Letter \cup {".", "-", "+"}, 1, Inf), Close(2), Close(1)>>

\* r"(REGISTER\s*NO\.?\s*:?\s*([0-9]+))"
RegAnchorFallbackPat ==
  <<Open(1), Lit(<<"R", "E", "G", "I", "S", "T", "E", "R">>), Ws0, Lit(<<"N", "O">>), Cls({"."}, 0, 1), Ws0, Cls({":"}, 0, 1), Ws0,
    Open(2), Cls(Digit, 1, Inf), Close(2), Close(1)>>

\* (?:\d{1,3}\s+)?([A-Z]{2,3}\d{3,4})\s+ , the start of both layouts
SubCodeHead ==
  <<Opt(<<Cls(Digit, 1, 3), Ws1>>), Open(1), Cls(Letter, 2, 3), Cls(Digit, 3, 4), Close(1), Ws1>>

\* (PASS|RA|P)
ResultAlt == <<Open(6), Alt(<< <<Lit(<<"P", "A", "S", "S">>)>>, <<Lit(<<"R", "A">>)>>, <<Lit(<<"P">>)>> >>), Close(6)>>

\* [A-Z\+OU] under re.I
GradeChars == Letter \cup {"+"}

\* Layout A: ...([^\d]{2,160}?)\s+(\d+(?:\.\d+)?)\s+([A-Z\+OU]{1,2})\s+(\d+)\s+(PASS|RA|P)
pat_a ==
  SubCodeHead \o
  <<Open(2), LazyCls(Chars \ Digit, 2, 160), Close(2), Ws1,
    Open(3), Cls(Digit, 1, Inf), Opt(<<Lit(<<".">>), Cls(Digit, 1, Inf)>>), Close(3), Ws1,
    Open(4), Cls(GradeChars, 1, 2), Close(4), Ws1,
    Open(5), Cls(Digit, 1, Inf), Close(5), Ws1>> \o ResultAlt

\* the class of the subject name of Layout B
NameCharsB == Letter \cup Stars \cup Digit \cup {"(", ")", "-", ":", ",", "/", "&"} \cup Space

\* Layout B: ...(name{1,160}?)\s+(?:([\d\.]+)\s+)?(?:([A-Z\+OU]{1,2})\s+)?(?:([\d]+)\s+)?(PASS|RA|P)\b
pat_b ==
  SubCodeHead \o
  <<Open(2), LazyCls(NameCharsB, 1, 160), Close(2), Ws1,
    Opt(<<Open(3), Cls(Digit \cup {"."}, 1, Inf), Close(3), Ws1>>),
    Opt(<<Open(4), Cls(GradeChars, 1, 2), Close(4), Ws1>>),
    Opt(<<Open(5), Cls(Digit, 1, Inf), Close(5), Ws1>>)>> \o ResultAlt \o <<WordB>>

\* the text of all pages, whitespace collapsed (app.py:134)
TextData(all_text) == Strip(CollapseWs(all_text))

\* if not reg_iter: the matches of the fallback label
RegIterOr(text_data, primary) ==
  IF Len(primary) > 0 THEN primary ELSE FindIter(RegAnchorFallbackPat, text_data)

\* reg_iter: the matches of the register label, of the fallback when none
RegIter(text_data) == RegIterOr(text_data, FindIter(RegAnchorPat, text_data))

\* every block running to the end of the text
BlockEndOfText(reg_iter, idx, text_data) == Len(text_data)

\* block_start and block_end of the block of match idx (1-based)
BlockStart(reg_iter, idx) == reg_iter[idx].end
BlockEnd(reg_iter, idx, text_data) ==
  IF idx + 1 <= Len(reg_iter) THEN reg_iter[idx + 1].start ELSE Len(text_data)

\* "PAS<<" ", "i", "f", " ", "r", "e", "s", "u", "l", "t", " ", "=", "=", " ">>P" else ("PAS<<" ", "i", "f", " ", "r", "e", "s", "u", "l", "t", " ", "=", "=", " ">>PASS" else result)
InlineResult(result) == IF result = <<"P">> THEN <<"P", "A", "S", "S">> ELSE result

\* the record of one Layout A match
RecordA(block, regno, m) ==
  [REGISTER_NO |-> regno,
   SUB_CODE |-> ToUpper(Strip(Group(block, m, 1))),
   SUBJECT_NAME |-> Strip(Group(block, m, 2)),
   COURSE_CREDIT |-> Strip(Group(block, m, 3)),
   GRADE |-> ToUpper(Strip(Group(block, m, 4))),
   GRADE_POINT |-> Strip(Group(block, m, 5)),
   RESULT |-> InlineResult(ToUpper(Strip(Group(block, m, 6))))]

\* the record of one Layout B match: "0", "<<",", " ">>0" for the columns left out
RecordB(block, regno, m) ==
  [REGISTER_NO |-> regno,
   SUB_CODE |-> ToUpper(Strip(Group(block, m, 1))),
   SUBJECT_NAME |-> Strip(Group(block, m, 2)),
   COURSE_CREDIT |-> IF Len(Group(block, m, 3)) > 0 THEN Strip(Group(block, m, 3)) ELSE <<"0">>,
   GRADE |-> IF Len(Group(block, m, 4)) > 0 THEN ToUpper(Strip(Group(block, m, 4))) ELSE <<"S">>,
   GRADE_POINT |-> IF Len(Group(block, m, 5)) > 0 THEN Strip(Group(block, m, 5)) ELSE <<"0">>,
   RESULT |-> InlineResult(ToUpper(Strip(Group(block, m, 6))))]

\* a test that sees only a span used as it is
OverlapSameSpan(s, e, us, ue) == s = us /\ e = ue

\* not (e <= us or s >= ue)
Overlap(s, e, us, ue) == ~(e <= us \/ s >= ue)

\* the first loop over one block: every Layout A match gives a record and
\* a used span.  n_a is how many there are.
ScanA(block, regno, as) ==
  [records |-> [i \in 1..Len(as) |-> RecordA(block, regno, as[i])] \o <<>>,
   used_spans |-> [i \in 1..Len(as) |-> <<as[i].start, as[i].end>>] \o <<>>,
   n_a |-> Len(as)]

\* the body of the second loop: the Layout B match m is skipped when its
\* span overlaps one of used_spans, appended otherwise
KeepB(block, regno, m, acc) ==
  IF \E j \in 1..Len(acc.used_spans) :
       Overlap(m.start, m.end, acc.used_spans[j][1], acc.used_spans[j][2])
  THEN acc
  ELSE [acc EXCEPT !.records = Append(@, RecordB(block, regno, m)),
                   !.used_spans = Append(@, <<m.start, m.end>>)]

RECURSIVE ScanB(_, _, _, _, _)
\* the second loop over one block, from the i-th Layout B match on
ScanB(block, regno, bs, i, acc) ==
  IF i > Len(bs) THEN acc
  ELSE ScanB(block, regno, bs, i + 1, KeepB(block, regno, bs[i], acc))

\* the two loops over one block
ScanBlock(block, regno) ==
  ScanB(block, regno, FindIter(pat_b, block), 1, ScanA(block, regno, FindIter(pat_a, block)))

\* block = text_data[block_start:block_end].strip()
BlockText(text_data, reg_iter, idx) ==
  Strip(Slice(text_data, BlockStart(reg_iter, idx), BlockEnd(reg_iter, idx, text_data)))

\* the body of the loop over reg_iter: the records of block idx, the spans
\* used, and how many of them the first loop (Layout A) appended
BlockRecords(text_data, reg_iter, idx) ==
  ScanBlock(BlockText(text_data, reg_iter, idx),
            normalize_register(Group(text_data, reg_iter[idx], 2)))

RECURSIVE RecordsFrom(_, _, _)
RecordsFrom(text_data, reg_iter, idx) ==
  IF idx > Len(reg_iter) THEN <<>>
  ELSE BlockRecords(text_data, reg_iter, idx).records \o RecordsFrom(text_data, reg_iter, idx + 1)

\* the loop over reg_iter on the collapsed text
RecordsOfText(text_data) == RecordsFrom(text_data, RegIter(text_data), 1)

\* extract_pdf_data: the records of every block, in order
extract_pdf_data(all_text) == RecordsOfText(TextData(all_text))

(***************************************************************************)
(* pandas.  A DataFrame is its columns, its rows (a row holds one value    *)
(* per column, in the order of the columns), and for each row the          *)
(* positions <<i, j>> of the rows of df_excel and df_pdf it comes from (0  *)
(* for none): the index of the frame, the join indexers of a merge.  A     *)
(* value is a str or NaN.  Column names are unique in every frame of the   *)
(* model.                                                                  *)
(***************************************************************************)
NaN == <<"NaN">>

\* str(v) of a cell
Str(v) == IF v = NaN THEN <<"n", "a", "n">> ELSE v

Range(s) == {s[i] : i \in 1..Len(s)}

\* the position of column c in cols
ColIx(cols, c) == CHOOSE k \in 1..Len(cols) : cols[k] = c

\* row[c] of a row of df
Val(df, row, c) == row[ColIx(df.cols, c)]

\* the i in 1..n with keep(i), in increasing order
SelectIx(n, keep(_)) ==
  LET S == {i \in 1..n : keep(i)}
  IN [k \in 1..Cardinality(S) |-> CHOOSE i \in S : Cardinality({j \in S : j <= i}) = k]

EmptyFrame == [cols |-> <<>>, rows |-> <<>>, src |-> <<>>]

\* DataFrame.empty
IsEmpty(df) == Len(df.cols) = 0 \/ Len(df.rows) = 0

\* df[keep(row index)]
FilterRows(df, keep(_)) ==
  LET ix == SelectIx(Len(df.rows), keep)
  IN [cols |-> df.cols,
      rows |-> [k \in 1..Len(ix) |-> df.rows[ix[k]]] \o <<>>,
      src |-> [k \in 1..Len(ix) |-> df.src[ix[k]]] \o <<>>]

\* df[c] = df[c].apply(F), for a column c of df
ApplyCol(df, c, F(_)) ==
  [df EXCEPT !.rows = [i \in 1..Len(df.rows) |->
                         [df.rows[i] EXCEPT ![ColIx(df.cols, c)] = F(@)]] \o <<>>]

\* df[c] = v, for a new column c
AddCol(df, c, v) ==
  [df EXCEPT !.cols = Append(@, c),
             !.rows = [i \in 1..Len(df.rows) |-> Append(df.rows[i], v)] \o <<>>]

\* df[cs], for columns cs of df
Project(df, cs) ==
  [df EXCEPT !.cols = cs,
             !.rows = [i \in 1..Len(df.rows) |->
                         [k \in 1..Len(cs) |-> Val(df, df.rows[i], cs[k])]] \o <<>>]

\* df.drop(columns = [c])
DropCol(df, c) == Project(df, SelectSeq(df.cols, LAMBDA d : d # c))

\* df.drop_duplicates(): the first of the rows that are equal
DropDuplicates(df) ==
  FilterRows(df, LAMBDA i : \A j \in 1..(i - 1) : df.rows[j] # df.rows[i])

\* the values of the key columns of a row
KeyOf(df, row, on) == [k \in 1..Len(on) |-> Val(df, row, on[k])]

MergeCol == <<"_", "m", "e", "r", "g", "e">>

\* the name in the merged frame of column c of one side: the suffix is
\* added where the other side has a column of that name that is no key
Suffixed(c, others, on, suffix) ==
  IF c \notin Range(on) /\ c \in Range(others) THEN c \o suffix ELSE c

\* the columns of pd.merge(left, right, on, suffixes)
MergeCols(left, right, on, suffixes) ==
  [k \in 1..Len(left.cols) |-> Suffixed(left.cols[k], right.cols, on, suffixes[1])]
  \o LET rs == SelectSeq(right.cols, LAMBDA c : c \notin Range(on))
     IN [k \in 1..Len(rs) |-> Suffixed(rs[k], left.cols, on, suffixes[2])]

\* the row of the merge for row i of left and row j of right, 0 for the
\* absent side of a row that is on one side only
MergeRow(left, right, on, i, j) ==
  [k \in 1..Len(left.cols) |->
     IF i > 0 THEN left.rows[i][k]
     ELSE IF left.cols[k] \in Range(on) THEN Val(right, right.rows[j], left.cols[k])
     ELSE NaN]
  \o LET rs == SelectSeq(right.cols, LAMBDA c : c \notin Range(on))
     IN [k \in 1..Len(rs) |-> IF j > 0 THEN Val(right, right.rows[j], rs[k]) ELSE NaN]

\* the pairs of rows pd.merge(left, right, on, how) joins, in an order of
\* its rows (no property states the order): each row of left with each row
\* of right of the same key; a left row without one (how = left, outer); a
\* right row without one (how = outer)
MergePairs(left, right, on, how) ==
  LET same(i, j) == KeyOf(left, left.rows[i], on) = KeyOf(right, right.rows[j], on)
      L == 1..Len(left.rows)
      R == 1..Len(right.rows)
      both == {<<i, j>> : i \in L, j \in R} \cap {p \in L \X R : same(p[1], p[2])}
      lonly == IF how = "inner" THEN {}
               ELSE {<<i, 0>> : i \in {i \in L : \A j \in R : ~same(i, j)}}
      ronly == IF how # "outer" THEN {}
               ELSE {<<0, j>> : j \in {j \in R : \A i \in L : ~same(i, j)}}
      all == both \cup lonly \cup ronly
      \* left rows first, in their order; then the rows of right alone
      before(p, q) == \/ p[1] > 0 /\ q[1] = 0
                      \/ p[1] > 0 /\ q[1] > 0 /\ (p[1] < q[1] \/ (p[1] = q[1] /\ p[2] <= q[2]))
                      \/ p[1] = 0 /\ q[1] = 0 /\ p[2] <= q[2]
  IN [k \in 1..Cardinality(all) |->
        CHOOSE p \in all : Cardinality({q \in all : before(q, p)}) = k] \o <<>>

\* the value of _merge for a pair
Indicator(p) ==
  IF p[1] > 0 /\ p[2] > 0 THEN <<"b", "o", "t", "h">>
  ELSE IF p[1] > 0 THEN <<"l", "e", "f", "t", "_", "o", "n", "l", "y">> ELSE <<"r", "i", "g", "h", "t", "_", "o", "n", "l", "y">>

\* pd.merge(left, right, on = on, how = how, suffixes = suffixes,
\*          indicator = indicator)
Merge(left, right, on, how, suffixes, indicator) ==
  LET ps == MergePairs(left, right, on, how)
      row(p) == MergeRow(left, right, on, p[1], p[2])
  IN [cols |-> MergeCols(left, right, on, suffixes)
                 \o (IF indicator THEN <<MergeCol>> ELSE <<>>),
      rows |-> [k \in 1..Len(ps) |->
                  row(ps[k]) \o (IF indicator THEN <<Indicator(ps[k])>> ELSE <<>>)] \o <<>>,
      src |-> [k \in 1..Len(ps) |->
                 <<IF ps[k][1] > 0 THEN left.src[ps[k][1]][1] ELSE 0,
                   IF ps[k][2] > 0 THEN right.src[ps[k][2]][2] ELSE 0>>] \o <<>>]

\* pd.merge's default suffixes
DefaultSuffixes == <<<<"_", "x">>, <<"_", "y">>>>

(***************************************************************************)
(* The text of a PDF: pdfplumber gives the text of each page; the          *)
(* extraction functions join the pages, a line feed after each.            *)
(***************************************************************************)
RECURSIVE AllText(_)
AllText(pages) ==
  IF Len(pages) = 0 THEN <<>> ELSE Head(pages) \o <<"LF">> \o AllText(Tail(pages))

\* pd.DataFrame(students): no column when there is no record
StudentsFrame(students) ==
  IF Len(students) = 0 THEN EmptyFrame
  ELSE [cols |-> <<<<"U", "M", "I", "S", "_", "N", "O">>, <<"R", "E", "G", "I", "S", "T", "E", "R", "_", "N", "O">>, <<"N", "A", "M", "E">>, <<"D", "O", "B">>, <<"G", "E", "N", "D", "E", "R">>, <<"P", "R", "O", "G", "R", "A", "M", "M", "E">>>>,
        rows |-> [i \in 1..Len(students) |->
                    <<students[i].UMIS_NO, students[i].REGISTER_NO, students[i].NAME,
                      students[i].DOB, students[i].GENDER, students[i].PROGRAMME>>] \o <<>>,
        src |-> [i \in 1..Len(students) |-> <<0, i>>] \o <<>>]

\* pd.DataFrame(records) of extract_pdf_data
RecordsFrame(records) ==
  IF Len(records) = 0 THEN EmptyFrame
  ELSE [cols |-> <<<<"R", "E", "G", "I", "S", "T", "E", "R", "_", "N", "O">>, <<"S", "U", "B", "_", "C", "O", "D", "E">>, <<"S", "U", "B", "J", "E", "C", "T", "_", "N", "A", "M", "E">>, <<"C", "O", "U", "R", "S", "E", "_", "C", "R", "E", "D", "I", "T">>,
                   <<"G", "R", "A", "D", "E">>, <<"G", "R", "A", "D", "E", "_", "P", "O", "I", "N", "T">>, <<"R", "E", "S", "U", "L", "T">>>>,
        rows |-> [i \in 1..Len(records) |->
                    <<records[i].REGISTER_NO, records[i].SUB_CODE, records[i].SUBJECT_NAME,
                      records[i].COURSE_CREDIT, records[i].GRADE, records[i].GRADE_POINT,
                      records[i].RESULT>>] \o <<>>,
        src |-> [i \in 1..Len(records) |-> <<0, i>>] \o <<>>]

\* pd.read_excel(excel_file, dtype = str): the headers and the cells of the
\* sheet, NaN for an empty cell
ReadExcel(file) ==
  [cols |-> file.cols, rows |-> file.rows,
   src |-> [i \in 1..Len(file.rows) |-> <<i, 0>>] \o <<>>]

\* [c.strip().upper() for c in df_excel.columns]
UpperHeaders(df) == [df EXCEPT !.cols = [k \in 1..Len(df.cols) |-> ToUpper(Strip(df.cols[k]))] \o <<>>]

\* df.rename(columns = map): map is a sequence of <<old, new>>
Rename(df, map) ==
  [df EXCEPT !.cols = [k \in 1..Len(df.cols) |->
                         IF \E m \in Range(map) : m[1] = df.cols[k]
                         THEN (CHOOSE m \in Range(map) : m[1] = df.cols[k])[2]
                         ELSE df.cols[k]] \o <<>>]

\* every cell of df through F
ApplyAll(df, F(_)) ==
  [df EXCEPT !.rows = [i \in 1..Len(df.rows) |->
                         [k \in 1..Len(df.cols) |-> F(df.rows[i][k])] \o <<>>] \o <<>>]

\* df[c].apply(F) on each column c of cs that df has
ApplyCols(df, cs, F(_)) ==
  [df EXCEPT !.rows = [i \in 1..Len(df.rows) |->
                         [k \in 1..Len(df.cols) |->
                            IF df.cols[k] \in cs THEN F(df.rows[i][k]) ELSE df.rows[i][k]] \o <<>>]
                      \o <<>>]

\* ", ".join(names)
RECURSIVE JoinComma(_)
JoinComma(names) ==
  IF Len(names) = 0 THEN <<>>
  ELSE IF Len(names) = 1 THEN names[1]
  ELSE names[1] \o <<",", " ">> \o JoinComma(Tail(names))

\* str(row[col_EXCEL]).strip().upper() != str(row[col_PDF]).strip().upper()
Differs(df, row, col) ==
  ToUpper(Strip(Str(Val(df, row, col \o <<"_", "E", "X", "C", "E", "L">>))))
    # ToUpper(Strip(Str(Val(df, row, col \o <<"_", "P", "D", "F">>))))

NoError == [kind |-> "none", cols |-> <<>>]

(***************************************************************************)
(* Phase 1: Student Info Comparison.                                       *)
(***************************************************************************)
expected ==
  <<<<"R", "E", "G", "I", "S", "T", "E", "R", " ", "N", "O">>, <<"S", "T", "U", "D", "E", "N", "T", " ", "N", "A", "M", "E">>, <<"D", "A", "T", "E", " ", "O", "F", " ", "B", "I", "R", "T", "H">>, <<"G", "E", "N", "D", "E", "R">>, <<"P", "R", "O", "G", "R", "A", "M", "M", "E">>, <<"U", "M", "I", "S", " ", "N", "O">>>>

\* missing_cols
MissingCols(df) == SelectSeq(expected, LAMBDA c : c \notin Range(df.cols))

Phase1Rename ==
  << <<<<"R", "E", "G", "I", "S", "T", "E", "R", " ", "N", "O">>, <<"R", "E", "G", "I", "S", "T", "E", "R", "_", "N", "O">>>>, <<<<"S", "T", "U", "D", "E", "N", "T", " ", "N", "A", "M", "E">>, <<"N", "A", "M", "E">>>>,
     <<<<"D", "A", "T", "E", " ", "O", "F", " ", "B", "I", "R", "T", "H">>, <<"D", "O", "B">>>>, <<<<"G", "E", "N", "D", "E", "R">>, <<"G", "E", "N", "D", "E", "R">>>>,
     <<<<"P", "R", "O", "G", "R", "A", "M", "M", "E">>, <<"P", "R", "O", "G", "R", "A", "M", "M", "E">>>>, <<<<"U", "M", "I", "S", " ", "N", "O">>, <<"U", "M", "I", "S", "_", "N", "O">>>> >>

\* df_excel[col].astype(str).fillna("").str.strip() on one cell.  astype(str)
\* turns NaN into the text "nan" before fillna sees it, in the pandas
\* releases where str is the object dtype; where read_excel(dtype = str)
\* gives the string dtype, NaN stays and fillna makes it "".
Phase1Cell(v, nan_text) ==
  IF v = NaN THEN (IF nan_text THEN <<"n", "a", "n">> ELSE <<>>) ELSE Strip(v)

\* lines 217-232: the Excel frame of Phase 1, for a sheet with every
\* expected column
Phase1Excel(df, nan_text) ==
  LET renamed == Rename(df, Phase1Rename)
      cells == ApplyAll(renamed, LAMBDA v : Phase1Cell(v, nan_text))
      reg == ApplyCol(cells, <<"R", "E", "G", "I", "S", "T", "E", "R", "_", "N", "O">>, normalize_register)
      name == ApplyCol(reg, <<"N", "A", "M", "E">>, normalize_name)
      dob == ApplyCol(name, <<"D", "O", "B">>, normalize_dob)
      gender == ApplyCol(dob, <<"G", "E", "N", "D", "E", "R">>, normalize_gender)
      prog == ApplyCol(gender, <<"P", "R", "O", "G", "R", "A", "M", "M", "E">>, normalize_text)
  IN ApplyCol(prog, <<"U", "M", "I", "S", "_", "N", "O">>, LAMBDA v : Strip(Str(v)))

Phase1On == <<<<"R", "E", "G", "I", "S", "T", "E", "R", "_", "N", "O">>, <<"U", "M", "I", "S", "_", "N", "O">>>>
ExcelPdfSuffixes == <<<<"_", "E", "X", "C", "E", "L">>, <<"_", "P", "D", "F">>>>
Phase1CompareCols == <<<<"N", "A", "M", "E">>, <<"D", "O", "B">>, <<"G", "E", "N", "D", "E", "R">>, <<"P", "R", "O", "G", "R", "A", "M", "M", "E">>>>

\* the outer merge of Phase 1
Phase1Merged(excel, pdf) == Merge(excel, pdf, Phase1On, "outer", ExcelPdfSuffixes, TRUE)

\* merged[merged["_merge"] == which]
WithIndicator(m, which) ==
  FilterRows(m, LAMBDA i : Val(m, m.rows[i], MergeCol) = which)

\* diffs of one row of the merge
Phase1Diffs(m, row) == SelectSeq(Phase1CompareCols, LAMBDA col : Differs(m, row, col))

\* pd.DataFrame(mismatches): the rows of both sides with a difference, each
\* with MISMATCH_FIELDS
Phase1Mismatches(m) ==
  LET both == WithIndicator(m, <<"b", "o", "t", "h">>)
      bad == FilterRows(both, LAMBDA i : Len(Phase1Diffs(m, both.rows[i])) > 0)
  IN IF Len(bad.rows) = 0 THEN EmptyFrame
     ELSE [cols |-> Append(bad.cols, <<"M", "I", "S", "M", "A", "T", "C", "H", "_", "F", "I", "E", "L", "D", "S">>),
           rows |-> [i \in 1..Len(bad.rows) |->
                       Append(bad.rows[i], JoinComma(Phase1Diffs(m, bad.rows[i])))] \o <<>>,
           src |-> bad.src]

(***************************************************************************)
(* Phase 2: Marks/Grades Comparison.                                       *)
(***************************************************************************)
HEADER_MAP ==
  << <<<<"E", "X", "A", "M">>, <<"E", "X", "A", "M">>>>, <<<<"P", "R", "O", "G", "R", "A", "M", "M", "E">>, <<"P", "R", "O", "G", "R", "A", "M", "M", "E">>>>,
     <<<<"R", "E", "G", "I", "S", "T", "E", "R", " ", "N", "O">>, <<"R", "E", "G", "I", "S", "T", "E", "R", "_", "N", "O">>>>, <<<<"S", "T", "U", "D", "E", "N", "T", " ", "N", "A", "M", "E">>, <<"N", "A", "M", "E">>>>,
     <<<<"S", "E", "M">>, <<"S", "E", "M", "_", "N", "O">>>>, <<<<"S", "U", "B", "J", "E", "C", "T", " ", "O", "R", "D", "E", "R">>, <<"S", "U", "B", "_", "O", "R", "D", "E", "R">>>>,
     <<<<"S", "U", "B", " ", "C", "O", "D", "E">>, <<"S", "U", "B", "_", "C", "O", "D", "E">>>>, <<<<"S", "U", "B", "J", "E", "C", "T", " ", "N", "A", "M", "E">>, <<"S", "U", "B", "J", "E", "C", "T", "_", "N", "A", "M", "E">>>>,
     <<<<"I", "N", "T">>, <<"I", "N", "T">>>>, <<<<"E", "X", "T">>, <<"E", "X", "T">>>>, <<<<"T", "O", "T">>, <<"T", "O", "T", "A", "L">>>>,
     <<<<"R", "E", "S", "U", "L", "T">>, <<"R", "E", "S", "U", "L", "T">>>>, <<<<"G", "R", "A", "D", "E">>, <<"G", "R", "A", "D", "E">>>>,
     <<<<"G", "R", "A", "D", "E", " ", "P", "O", "I", "N", "T">>, <<"G", "R", "A", "D", "E", "_", "P", "O", "I", "N", "T">>>> >>

\* lines 284-295: the Excel frame of Phase 2.  fillna("") comes before
\* astype(str): an empty cell is "".
Phase2Excel(df) ==
  LET renamed == Rename(UpperHeaders(df), HEADER_MAP)
      cells == ApplyAll(renamed, LAMBDA v : IF v = NaN THEN <<>> ELSE Strip(v))
      reg == ApplyCols(cells, {<<"R", "E", "G", "I", "S", "T", "E", "R", "_", "N", "O">>}, normalize_register)
      subj == ApplyCols(reg, {<<"S", "U", "B", "J", "E", "C", "T", "_", "N", "A", "M", "E">>}, normalize_subject_name_after_extraction)
  IN ApplyCols(subj, {<<"R", "E", "S", "U", "L", "T">>}, normalize_result)

\* lines 310-313: the PDF frame of Phase 2, normalized
Phase2Pdf(df) ==
  LET reg == ApplyCol(df, <<"R", "E", "G", "I", "S", "T", "E", "R", "_", "N", "O">>, normalize_register)
      subj == ApplyCol(reg, <<"S", "U", "B", "J", "E", "C", "T", "_", "N", "A", "M", "E">>, normalize_subject_name_after_extraction)
      code == ApplyCol(subj, <<"S", "U", "B", "_", "C", "O", "D", "E">>, LAMBDA v : ToUpper(Strip(Str(v))))
  IN ApplyCol(code, <<"R", "E", "S", "U", "L", "T">>, normalize_result)

Phase2On == <<<<"R", "E", "G", "I", "S", "T", "E", "R", "_", "N", "O">>, <<"S", "U", "B", "_", "C", "O", "D", "E">>>>
Phase2CompareCols == <<<<"S", "U", "B", "J", "E", "C", "T", "_", "N", "A", "M", "E">>, <<"G", "R", "A", "D", "E">>, <<"G", "R", "A", "D", "E", "_", "P", "O", "I", "N", "T">>, <<"R", "E", "S", "U", "L", "T">>>>

\* lines 324-326 and 328-330: the keys of a that are not keys of b
MissingKeys(a, b) ==
  LET m == Merge(DropDuplicates(a), DropDuplicates(b), Phase2On, "left", DefaultSuffixes, TRUE)
  IN DropCol(WithIndicator(m, <<"l", "e", "f", "t", "_", "o", "n", "l", "y">>), MergeCol)

\* lines 334-338: a compared column the merge has not, on either side, is
\* added with "" in every row
RECURSIVE WithCompareCols(_, _)
WithCompareCols(m, k) ==
  IF k > Len(Phase2CompareCols) THEN m
  ELSE LET e == Phase2CompareCols[k] \o <<"_", "E", "X", "C", "E", "L">>
           p == Phase2CompareCols[k] \o <<"_", "P", "D", "F">>
           m1 == IF e \in Range(m.cols) THEN m ELSE AddCol(m, e, <<>>)
           m2 == IF p \in Range(m1.cols) THEN m1 ELSE AddCol(m1, p, <<>>)
       IN WithCompareCols(m2, k + 1)

\* lines 332-341: the inner merge, with its compared columns
Phase2Merged(excel, pdf) ==
  LET m == Merge(excel, pdf, Phase2On, "inner", ExcelPdfSuffixes, FALSE)
      full == WithCompareCols(m, 1)
      e == ApplyCol(full, <<"S", "U", "B", "J", "E", "C", "T", "_", "N", "A", "M", "E", "_", "E", "X", "C", "E", "L">>, normalize_subject_name_after_extraction)
  IN ApplyCol(e, <<"S", "U", "B", "J", "E", "C", "T", "_", "N", "A", "M", "E", "_", "P", "D", "F">>, normalize_subject_name_after_extraction)

\* lines 343-351: the rows of the merge with a compared column that differs
Phase2Mismatches(m) ==
  FilterRows(m, LAMBDA i : \E k \in 1..Len(Phase2CompareCols) :
                              Differs(m, m.rows[i], Phase2CompareCols[k]))

(***************************************************************************)
(* The inputs of a run: the phase chosen, the sheet and the PDF uploaded.  *)
(***************************************************************************)
\* the sequences of at most n elements of T
SeqsUpTo(T, n) == UNION {[1..m -> T] : m \in 0..n}

\* the elements of seq at the positions keep, in order
Pick(seq, keep) ==
  LET ix == SelectIx(Len(seq), LAMBDA i : i \in keep)
  IN [k \in 1..Len(ix) |-> seq[ix[k]]] \o <<>>

\* rows of a sheet, pages of a PDF in a run of the comparison
MaxRows == 2
MaxPdfPages == 2

\* the headers of a Phase 1 sheet and the sheets' rows, in their order
Phase1Headers ==
  <<<<" ", "R", "e", "g", "i", "s", "t", "e", "r", " ", "N", "o">>, <<"S", "t", "u", "d", "e", "n", "t", " ", "N", "a", "m", "e">>, <<"D", "a", "t", "e", " ", "o", "f", " ", "B", "i", "r", "t", "h">>, <<"g", "e", "n", "d", "e", "r">>, <<"P", "r", "o", "g", "r", "a", "m", "m", "e">>, <<"U", "M", "I", "S", " ", "N", "o", " ">>>>
Phase1Rows ==
  { <<<<"2", "1", "2", "3", "4", "5", "6", "7", "8">>, <<"R", "a", "v", "i", " ", " ", "K">>, <<"2", "0", "0", "3", "-", "0", "1", "-", "0", "5">>, <<"m">>, <<"c", "s", "e">>, <<"1", "2", "3", "4", "5", "6", "7", "8", "9", "0">>>>,
    <<<<"2", ".", "1", "2", "3", "4", "5", "6", "7", "8", "E", "+", "8">>, <<"R", "A", "V", "I", " ", "K">>, <<"0", "5", "/", "0", "1", "/", "2", "0", "0", "3">>, NaN, NaN, <<" ", "1", "2", "3", "4", "5", "6", "7", "8", "9", "0">>>>,
    <<<<"2", "1", "2", "3", "4", "5", "0", "0", "0", ".", "0">>, <<"A", " ", "B">>, NaN, <<"F">>, <<"E", "C", "E">>, <<"1", "2", "3", "4", "5", "6", "7", "8", "9", "9">>>> }
\* the sheets lack no column, a compared column, or a key column
Phase1Keeps == {1..6, (1..6) \ {4}, (1..6) \ {6}}
Phase1Pages ==
  { <<"U", "M", "I", "S", " ", "N", "o", ":", " ", "1", "2", "3", "4", "5", "6", "7", "8", "9", "0", " ", "N", "a", "m", "e", " ", "o", "f", " ", "t", "h", "e", " ", "C", "a", "n", "d", "i", "d", "a", "t", "e", " ", "R", "A", "V", "I", " ", "K", " ", "R", "e", "g", "i", "s", "t", "e", "r", " ", "N", "o", ":", " ", "2", "1", "2", "3", "4", "5", "6", "7", "8", " ", "D", "a", "t", "e", " ", "o", "f", " ", "B", "i", "r", "t", "h", ":", " ", "0", "5", "-", "J", "a", "n", "-", "2", "0", "0", "3">>,
    <<"G", "e", "n", "d", "e", "r", ":", " ", "M", "a", "l", "e", " ", "P", "r", "o", "g", "r", "a", "m", "m", "e", " ", "&", " ", "B", ".", "E", ".", " ", "C", "S", "E", " ", "R", "e", "g", "u", "l", "a", "t", "i", "o", "n", "s", " ", "2", "0", "2", "1">>,
    <<"U", "M", "I", "S", " ", "N", "o", ".", " ", "1", "2", "3", "4", "5", "6", "7", "8", "9", "1", " ", "N", "a", "m", "e", " ", "o", "f", " ", "t", "h", "e", " ", "S", ".", " ", "D", "E", "V", "I", " ", "C", "a", "n", "d", "i", "d", "a", "t", "e", " ", "R", "e", "g", "i", "s", "t", "e", "r", " ", "N", "o", " ", "2", "1", "2", "3", "4", "5", "6", "7", "0", " ", "G", "e", "n", "d", "e", "r", " ", "-", " ", "F", "e", "m", "a", "l", "e">> }

Phase2Headers ==
  <<<<"R", "e", "g", "i", "s", "t", "e", "r", " ", "N", "o">>, <<"S", "u", "b", " ", "C", "o", "d", "e">>, <<"S", "u", "b", "j", "e", "c", "t", " ", "N", "a", "m", "e", " ">>, <<"G", "r", "a", "d", "e">>, <<"G", "r", "a", "d", "e", " ", "P", "o", "i", "n", "t">>, <<"R", "e", "s", "u", "l", "t">>>>
Phase2Rows ==
  { <<<<"2", "1", "2", "3", "4", "5", "6", "7", "8">>, <<"c", "s", "1", "0", "1">>, <<"M", "a", "t", "h", "s">>, <<"a">>, <<"8">>, <<"P">>>>,
    <<<<"2", "1", "2", "3", "4", "5", "6", "7", "8", ".", "0">>, <<"C", "S", "1", "0", "1">>, <<"M", "A", "T", "H", "S">>, <<"B">>, <<"7">>, <<"P", "A", "S", "S">>>>,
    <<<<"2", "1", "2", "3", "4", "5", "6", "7", "8">>, <<"C", "S", "1", "0", "2">>, <<"P", "h", "y", "s", "i", "c", "s", " ", " ", "L", "a", "b", "*">>, NaN, NaN, <<"F">>>> }
Phase2Keeps == {1..6, (1..6) \ {4}, (1..6) \ {2}, (1..6) \ {1}}
Phase2Pages ==
  { <<"R", "e", "g", "i", "s", "t", "e", "r", " ", "N", "o", ":", " ", "2", "1", "2", "3", "4", "5", "6", "7", "8", " ", "1", " ", "C", "S", "1", "0", "1", " ", "M", "a", "t", "h", "s", " ", "3", " ", "A", " ", "8", " ", "P", "A", "S", "S">>,
    <<"C", "S", "1", "0", "2", " ", "P", "h", "y", "s", "i", "c", "s", " ", "L", "a", "b", " ", "R", "A">>,
    <<"R", "e", "g", "i", "s", "t", "e", "r", " ", "N", "o", ".", " ", "2", "1", "2", "3", "4", "5", "6", "7", "9", " ", "C", "S", "1", "0", "1", " ", "M", "a", "t", "h", "s", " ", "3", " ", "A", " ", "8", " ", "P">> }

\* the sheet with the columns keep and the rows rows
Sheet(headers, keep, rows) ==
  [cols |-> Pick(headers, keep),
   rows |-> [i \in 1..Len(rows) |-> Pick(rows[i], keep)] \o <<>>]

Sheets(ph) ==
  IF ph = 1
  THEN {Sheet(Phase1Headers, k, r) : k \in Phase1Keeps, r \in SeqsUpTo(Phase1Rows, MaxRows)}
  ELSE {Sheet(Phase2Headers, k, r) : k \in Phase2Keeps, r \in SeqsUpTo(Phase2Rows, MaxRows)}

Pdfs(ph) == SeqsUpTo(IF ph = 1 THEN Phase1Pages ELSE Phase2Pages, MaxPdfPages)

VARIABLES
  phase,             \* 1: Student Info Comparison, 2: Marks/Grades Comparison
  pc,                \* where the run is
  nan_text,          \* whether astype(str) of this pandas writes NaN as "nan"
  excel_file,        \* the sheet uploaded
  pdf_pages,         \* the text of each page of the PDF uploaded
  df_excel,
  df_pdf,
  merged,
  missing_in_pdf,
  missing_in_excel,
  mismatches,
  error,             \* what st.error showed before the run stopped
  text_data,         \* the text of the PDF, whitespace collapsed
  reg_iter,          \* the matches of the register label
  blocks,            \* the text of each block
  spans,             \* <<start, end>> of each block in text_data
  idx,               \* the block the loop is at
  records,           \* the records appended so far
  used_spans,        \* per block: the spans used, and how many Layout A gave
  raw,               \* the value given to a normalizer
  fn,                \* the normalizer
  once,              \* its result
  twice              \* its result on that result

vars == <<phase, pc, nan_text, excel_file, pdf_pages, df_excel, df_pdf, merged,
          missing_in_pdf, missing_in_excel, mismatches, error, text_data, reg_iter,
          blocks, spans, idx, records, used_spans, raw, fn, once, twice>>

runVars == <<df_excel, df_pdf, merged, missing_in_pdf, missing_in_excel, mismatches, error>>
loopVars == <<text_data, reg_iter, blocks, spans, idx, records, used_spans>>
normVars == <<raw, fn, once, twice>>

NoSheet == [cols |-> <<>>, rows |-> <<>>]

InitRun ==
  /\ df_excel = EmptyFrame /\ df_pdf = EmptyFrame /\ merged = EmptyFrame
  /\ missing_in_pdf = EmptyFrame /\ missing_in_excel = EmptyFrame
  /\ mismatches = EmptyFrame /\ error = NoError

InitLoop ==
  /\ text_data = <<>> /\ reg_iter = <<>> /\ blocks = <<>> /\ spans = <<>>
  /\ idx = 0 /\ records = <<>> /\ used_spans = <<>>

InitNormVars == raw = <<>> /\ fn = "" /\ once = <<>> /\ twice = <<>>

(***************************************************************************)
(* A run of the script with both files uploaded (line 206).                *)
(***************************************************************************)
Init ==
  /\ phase \in {1, 2}
  /\ nan_text \in BOOLEAN
  /\ excel_file \in Sheets(phase)
  /\ pdf_pages \in Pdfs(phase)
  /\ pc = "excel"
  /\ InitRun /\ InitLoop /\ InitNormVars

Stop(kind, cols) ==
  /\ error' = [kind |-> kind, cols |-> cols]
  /\ pc' = "stopped"

\* lines 209-235
Phase1LoadExcel ==
  /\ pc = "excel" /\ phase = 1
  /\ LET df == UpperHeaders(ReadExcel(excel_file))
     IN IF Len(MissingCols(df)) > 0
        THEN /\ Stop("missing_columns", MissingCols(df))
             /\ df_excel' = df
        ELSE /\ df_excel' = Phase1Excel(df, nan_text)
             /\ pc' = "pdf"
             /\ error' = error
  /\ UNCHANGED <<phase, nan_text, excel_file, pdf_pages, df_pdf, merged, missing_in_pdf,
                 missing_in_excel, mismatches, loopVars, normVars>>

\* lines 238-243
Phase1ExtractPdf ==
  /\ pc = "pdf" /\ phase = 1
  /\ df_pdf' = StudentsFrame(extract_pdf_students(AllText(pdf_pages)))
  /\ IF IsEmpty(df_pdf') THEN Stop("no_pdf_data", <<>>)
     ELSE pc' = "compare" /\ error' = error
  /\ UNCHANGED <<phase, nan_text, excel_file, pdf_pages, df_excel, merged, missing_in_pdf,
                 missing_in_excel, mismatches, loopVars, normVars>>

\* lines 246-268
Phase1Compare ==
  /\ pc = "compare" /\ phase = 1
  /\ merged' = Phase1Merged(df_excel, df_pdf)
  /\ missing_in_pdf' = WithIndicator(merged', <<"l", "e", "f", "t", "_", "o", "n", "l", "y">>)
  /\ missing_in_excel' = WithIndicator(merged', <<"r", "i", "g", "h", "t", "_", "o", "n", "l", "y">>)
  /\ mismatches' = Phase1Mismatches(merged')
  /\ pc' = "results"
  /\ UNCHANGED <<phase, nan_text, excel_file, pdf_pages, df_excel, df_pdf, error,
                 loopVars, normVars>>

\* lines 284-298
Phase2LoadExcel ==
  /\ pc = "excel" /\ phase = 2
  /\ df_excel' = Phase2Excel(ReadExcel(excel_file))
  /\ pc' = "pdf"
  /\ UNCHANGED <<phase, nan_text, excel_file, pdf_pages, df_pdf, merged, missing_in_pdf,
                 missing_in_excel, mismatches, error, loopVars, normVars>>

\* lines 301-313
Phase2ExtractPdf ==
  /\ pc = "pdf" /\ phase = 2
  /\ LET df == RecordsFrame(extract_pdf_data(AllText(pdf_pages)))
     IN IF IsEmpty(df)
        THEN /\ df_pdf' = df
             /\ Stop("no_pdf_data", <<>>)
        ELSE /\ df_pdf' = Phase2Pdf(df)
             /\ pc' = "compare"
             /\ error' = error
  /\ UNCHANGED <<phase, nan_text, excel_file, pdf_pages, df_excel, merged, missing_in_pdf,
                 missing_in_excel, mismatches, loopVars, normVars>>

\* lines 315-353.  Without SUB_CODE the run stops; without REGISTER_NO
\* df_excel[["REGISTER_NO", "SUB_CODE"]] raises KeyError, which line 377
\* catches and shows
Phase2Compare ==
  /\ pc = "compare" /\ phase = 2
  /\ IF <<"S", "U", "B", "_", "C", "O", "D", "E">> \notin Range(df_excel.cols)
     THEN /\ Stop("missing_sub_code", <<<<"S", "U", "B", "_", "C", "O", "D", "E">>>>)
          /\ UNCHANGED <<df_excel, merged, missing_in_pdf, missing_in_excel, mismatches>>
     ELSE IF <<"R", "E", "G", "I", "S", "T", "E", "R", "_", "N", "O">> \notin Range(df_excel.cols)
     THEN /\ Stop("exception", <<<<"R", "E", "G", "I", "S", "T", "E", "R", "_", "N", "O">>>>)
          /\ df_excel' = ApplyCol(df_excel, <<"S", "U", "B", "_", "C", "O", "D", "E">>, LAMBDA v : ToUpper(Strip(Str(v))))
          /\ UNCHANGED <<merged, missing_in_pdf, missing_in_excel, mismatches>>
     ELSE /\ df_excel' = ApplyCol(df_excel, <<"S", "U", "B", "_", "C", "O", "D", "E">>, LAMBDA v : ToUpper(Strip(Str(v))))
          /\ LET excel_keys == Project(df_excel', Phase2On)
                 pdf_keys == Project(df_pdf, Phase2On)
             IN /\ missing_in_pdf' = MissingKeys(excel_keys, pdf_keys)
                /\ missing_in_excel' = MissingKeys(pdf_keys, excel_keys)
          /\ merged' = Phase2Merged(df_excel', df_pdf)
          /\ mismatches' = Phase2Mismatches(merged')
          /\ pc' = "results"
          /\ error' = error
  /\ UNCHANGED <<phase, nan_text, excel_file, pdf_pages, df_pdf, loopVars, normVars>>

Next ==
  \/ Phase1LoadExcel
  \/ Phase1ExtractPdf
  \/ Phase1Compare
  \/ Phase2LoadExcel
  \/ Phase2ExtractPdf
  \/ Phase2Compare

Spec == Init /\ [][Next]_vars

(***************************************************************************)
(* The two extraction functions, a step for each pass of their loops.      *)
(***************************************************************************)
\* pages of a PDF given to an extraction function
MaxPages == 3

StudentPages ==
  { <<"U", "M", "I", "S", " ", "N", "o", ":", " ", "1", "2", "3", "4", "5", "6", "7", "8", "9", "0", " ", "N", "a", "m", "e", " ", "o", "f", " ", "t", "h", "e", " ", "C", "a", "n", "d", "i", "d", "a", "t", "e", " ", "R", "A", "V", "I", " ", "K", " ", "R", "e", "g", "i", "s", "t", "e", "r", " ", "N", "o", ":", " ", "2", "1", "2", "3", "4", "5", "6", "7", "8">>,
    <<"D", "a", "t", "e", " ", "o", "f", " ", "B", "i", "r", "t", "h", ":", " ", "0", "5", "-", "J", "a", "n", "-", "2", "0", "0", "3", " ", "G", "e", "n", "d", "e", "r", ":", " ", "M", "a", "l", "e">>,
    <<"U", "M", "I", "S", " ", "N", "o", ".", " ", "1", "2", "3", "4", "5", "6", "7", "8", "9", "1", " ", "P", "r", "o", "g", "r", "a", "m", "m", "e", " ", "&", " ", "B", ".", "E", ".", " ", "C", "S", "E", " ", "R", "e", "g", "u", "l", "a", "t", "i", "o", "n", "s", " ", "2", "0", "2", "1">>,
    <<"N", "a", "m", "e", " ", "o", "f", " ", "t", "h", "e", " ", "S", " ", "D", "E", "V", "I", " ", "C", "a", "n", "d", "i", "d", "a", "t", "e", " ", "R", "e", "g", "i", "s", "t", "e", "r", " ", "N", "o", " ", "2", "1", "2", "3", "4", "5", "6", "7", "0", " ", "u", "m", "i", "s", " ", "n", "o", " ", "-", " ", "1", "2">> }

MarksPages ==
  { <<"R", "e", "g", "i", "s", "t", "e", "r", " ", "N", "o", ":", " ", "2", "1", "2", "3", "4", "5", "6", "7", "8">>,
    <<"1", " ", "C", "S", "1", "0", "1", " ", "M", "a", "t", "h", "s", " ", "3", " ", "A", " ", "8", " ", "P", "A", "S", "S">>,
    <<"C", "S", "1", "0", "2", " ", "P", "h", "y", "s", "i", "c", "s", " ", "L", "a", "b", " ", "R", "A", " ", "C", "S", "1", "0", "3", " ", "C", "h", "e", "m", "i", "s", "t", "r", "y", " ", "L", "a", "b">>,
    <<"R", "e", "g", "i", "s", "t", "e", "r", " ", "N", "o", ".", " ", "2", "1", "2", "3", "4", "5", "6", "7", "9", " ", "C", "S", "1", "0", "4", " ", "E", "n", "g", "l", "i", "s", "h", " ", "2", " ", "P">> }

InitExtract ==
  /\ phase \in {1, 2}
  /\ pdf_pages \in SeqsUpTo(IF phase = 1 THEN StudentPages ELSE MarksPages, MaxPages)
  /\ pc = "text"
  /\ nan_text = FALSE
  /\ excel_file = NoSheet
  /\ InitRun /\ InitLoop /\ InitNormVars

\* lines 66-74: the text, and its split at the UMIS labels
StudentsText ==
  /\ pc = "text" /\ phase = 1
  /\ text_data' = CleanText(AllText(pdf_pages))
  /\ reg_iter' = UmisAnchors(text_data')
  /\ spans' = Tail(SplitSpans(UmisSplitPat, text_data'))
  /\ blocks' = StudentBlocks(text_data')
  /\ idx' = 1
  /\ pc' = "loop"
  /\ UNCHANGED <<phase, nan_text, excel_file, pdf_pages, runVars, records, used_spans, normVars>>

\* lines 77-104: one pass of the loop over blocks[1:]
StudentsStep ==
  /\ pc = "loop" /\ phase = 1
  /\ idx <= Len(blocks)
  /\ records' = Append(records, StudentRecord(blocks[idx]))
  /\ idx' = idx + 1
  /\ UNCHANGED <<phase, pc, nan_text, excel_file, pdf_pages, runVars, text_data, reg_iter,
                 blocks, spans, used_spans, normVars>>

\* line 106
StudentsReturn ==
  /\ pc = "loop" /\ phase = 1
  /\ idx > Len(blocks)
  /\ df_pdf' = StudentsFrame(records)
  /\ pc' = "returned"
  /\ UNCHANGED <<phase, nan_text, excel_file, pdf_pages, df_excel, merged, missing_in_pdf,
                 missing_in_excel, mismatches, error, loopVars, normVars>>

\* lines 127-141: the text and the register labels; without a label the
\* function returns the empty frame
DataText ==
  /\ pc = "text" /\ phase = 2
  /\ text_data' = TextData(AllText(pdf_pages))
  /\ reg_iter' = RegIter(text_data')
  /\ idx' = 1
  /\ IF Len(reg_iter') = 0
     THEN df_pdf' = RecordsFrame(records) /\ pc' = "returned"
     ELSE df_pdf' = df_pdf /\ pc' = "loop"
  /\ UNCHANGED <<phase, nan_text, excel_file, pdf_pages, df_excel, merged, missing_in_pdf,
                 missing_in_excel, mismatches, error, blocks, spans, records, used_spans,
                 normVars>>

\* lines 143-198: one pass of the loop over reg_iter
DataStep ==
  /\ pc = "loop" /\ phase = 2
  /\ idx <= Len(reg_iter)
  /\ spans' = Append(spans, <<BlockStart(reg_iter, idx), BlockEnd(reg_iter, idx, text_data)>>)
  /\ blocks' = Append(blocks, BlockText(text_data, reg_iter, idx))
  /\ LET r == BlockRecords(text_data, reg_iter, idx)
     IN /\ records' = records \o r.records
        /\ used_spans' = Append(used_spans, [spans |-> r.used_spans, n_a |-> r.n_a])
  /\ idx' = idx + 1
  /\ UNCHANGED <<phase, pc, nan_text, excel_file, pdf_pages, runVars, text_data, reg_iter,
                 normVars>>

\* line 200
DataReturn ==
  /\ pc = "loop" /\ phase = 2
  /\ idx > Len(reg_iter)
  /\ df_pdf' = RecordsFrame(records)
  /\ pc' = "returned"
  /\ UNCHANGED <<phase, nan_text, excel_file, pdf_pages, df_excel, merged, missing_in_pdf,
                 missing_in_excel, mismatches, error, loopVars, normVars>>

NextExtract ==
  \/ StudentsText
  \/ StudentsStep
  \/ StudentsReturn
  \/ DataText
  \/ DataStep
  \/ DataReturn

SpecExtract == InitExtract /\ [][NextExtract]_vars

(***************************************************************************)
(* The normalizers, each applied to a text and to its own result.          *)
(***************************************************************************)
\* pieces in a text given to a normalizer
MaxParts == 3

NormParts ==
  { <<"A", "B", "C">>, <<"A", "B">>, <<"1">>, <<"1", "2", "3", "4", "5">>, <<"X", "Y", "Z">>, <<"X">>, <<"9", "0", "0", "7", "1", "9", "9", "2", "5", "4", "7", "4", "0", "9", "9", "3">>, <<".", "0">>, <<" ">>,
    <<"f">>, <<"U2217">>, <<"3", "/", "F", "e", "b", "/", "2", "0", "0", "1">> }

RECURSIVE Flatten(_)
Flatten(parts) == IF Len(parts) = 0 THEN <<>> ELSE Head(parts) \o Flatten(Tail(parts))

Normalizers ==
  { "normalize_register", "normalize_name", "normalize_text", "normalize_gender",
    "normalize_dob", "normalize_subject_name_after_extraction", "normalize_result" }

\* the normalizer named n on the text v
Apply(n, v) ==
  CASE n = "normalize_register" -> normalize_register(v)
    [] n = "normalize_name" -> normalize_name(v)
    [] n = "normalize_text" -> normalize_text(v)
    [] n = "normalize_gender" -> normalize_gender(v)
    [] n = "normalize_dob" -> normalize_dob(v)
    [] n = "normalize_subject_name_after_extraction" -> normalize_subject_name_after_extraction(v)
    [] n = "normalize_result" -> normalize_result(v)

InitNorm ==
  /\ raw \in {Flatten(parts) : parts \in SeqsUpTo(NormParts, MaxParts)}
  /\ fn = "" /\ once = <<>> /\ twice = <<>>
  /\ pc = "input"
  /\ phase = 0
  /\ nan_text = FALSE
  /\ excel_file = NoSheet
  /\ pdf_pages = <<>>
  /\ InitRun /\ InitLoop

\* a normalizer on the text
Normalize ==
  /\ pc = "input"
  /\ fn' \in Normalizers
  /\ once' = Apply(fn', raw)
  /\ pc' = "once"
  /\ UNCHANGED <<phase, nan_text, excel_file, pdf_pages, runVars, loopVars, raw, twice>>

\* the same normalizer on its result
Renormalize ==
  /\ pc = "once"
  /\ twice' = Apply(fn, once)
  /\ pc' = "twice"
  /\ UNCHANGED <<phase, nan_text, excel_file, pdf_pages, runVars, loopVars, raw, fn, once>>

NextNorm ==
  \/ Normalize
  \/ Renormalize

SpecNorm == InitNorm /\ [][NextNorm]_vars

(***************************************************************************)
(* The comparison results.                                                 *)
(***************************************************************************)
KeyCols == IF phase = 1 THEN Phase1On ELSE Phase2On
CompareCols == IF phase = 1 THEN Phase1CompareCols ELSE Phase2CompareCols

\* the composite keys of the rows of df, in the order of the rows
Keys(df) == [i \in 1..Len(df.rows) |-> KeyOf(df, df.rows[i], KeyCols)]

\* result has one row for each key of source that is no key of target
OnePerKey(result, source, target) ==
  /\ \A i, j \in 1..Len(result.rows) : i # j => Keys(result)[i] # Keys(result)[j]
  /\ Range(Keys(result)) = Range(Keys(source)) \ Range(Keys(target))

\* C1: in the results of either phase, the rows missing in the PDF are one
\* per distinct key of the Excel records that no PDF record has, and the
\* rows missing in Excel one per distinct key of the PDF records that no
\* Excel record has
C1_OneRowPerMissingKey ==
  pc = "results" =>
    /\ OnePerKey(missing_in_pdf, df_excel, df_pdf)
    /\ OnePerKey(missing_in_excel, df_pdf, df_excel)

\* field c of row i of df, blank where df has no such column
Field(df, i, c) == IF c \in Range(df.cols) THEN Str(Val(df, df.rows[i], c)) ELSE <<>>

\* whether field c differs between row i of df_excel and row j of df_pdf,
\* surrounding whitespace and case apart
FieldDiffers(i, j, c) ==
  ToUpper(Strip(Field(df_excel, i, c))) # ToUpper(Strip(Field(df_pdf, j, c)))

\* whether the mismatches hold the pair of row i of df_excel and row j of df_pdf
Reported(i, j) == \E r \in 1..Len(mismatches.rows) : mismatches.src[r] = <<i, j>>

\* C2: in the results, an Excel record and a PDF record of one key are
\* among the mismatches if and only if one of the compared fields differs
\* between them
C2_ReportedIffFieldDiffers ==
  pc = "results" =>
    \A i \in 1..Len(df_excel.rows), j \in 1..Len(df_pdf.rows) :
      Keys(df_excel)[i] = Keys(df_pdf)[j] =>
        (Reported(i, j) <=> \E k \in 1..Len(CompareCols) : FieldDiffers(i, j, CompareCols[k]))

\* the compared fields that differ between the two records
DiffFields(i, j) == SelectSeq(CompareCols, LAMBDA c : FieldDiffers(i, j, c))

\* C3: in the results of either phase, every row of the mismatches carries
\* the names of exactly the compared fields that differ for its pair
C3_RowsCarryDifferingFields ==
  pc = "results" =>
    \A r \in 1..Len(mismatches.rows) :
      /\ <<"M", "I", "S", "M", "A", "T", "C", "H", "_", "F", "I", "E", "L", "D", "S">> \in Range(mismatches.cols)
      /\ Val(mismatches, mismatches.rows[r], <<"M", "I", "S", "M", "A", "T", "C", "H", "_", "F", "I", "E", "L", "D", "S">>)
           = JoinComma(DiffFields(mismatches.src[r][1], mismatches.src[r][2]))

\* the columns the phase needs: its key columns and its compared columns
Required == IF phase = 1 THEN expected ELSE Phase2On \o Phase2CompareCols

\* the columns of the sheet as the phase names them
LoadedCols ==
  IF phase = 1 THEN UpperHeaders(ReadExcel(excel_file)).cols
  ELSE Rename(UpperHeaders(ReadExcel(excel_file)), HEADER_MAP).cols

MissingRequired == SelectSeq(Required, LAMBDA c : c \notin Range(LoadedCols))

\* C6: a run on a sheet that lacks a required column goes no further than
\* loading the sheet: it extracts nothing from the PDF, shows no results,
\* and where it has stopped the error names the missing columns
C6_MissingHeaderHalts ==
  Len(MissingRequired) > 0 =>
    /\ pc \in {"excel", "stopped"}
    /\ df_pdf = EmptyFrame
    /\ pc = "stopped" => error = [kind |-> "missing_columns", cols |-> MissingRequired]

\* whether the cell of column c in row i of the sheet is empty
RawBlank(i, c) ==
  /\ c \in Range(df_excel.cols)
  /\ \/ excel_file.rows[i][ColIx(df_excel.cols, c)] = NaN
     \/ Strip(excel_file.rows[i][ColIx(df_excel.cols, c)]) = <<>>

\* whether MISMATCH_FIELDS with the value text lists column c
ListedIn(text, c) ==
  \E K \in SUBSET (1..Len(CompareCols)) :
    /\ c \in {CompareCols[k] : k \in K}
    /\ JoinComma(Pick(CompareCols, K)) = text

\* C7: in the results of either phase, a compared field that is empty in
\* the Excel row and empty in the PDF record of the same key compares
\* equal, and no row of the mismatches lists it
C7_BlankEqualsBlank ==
  pc = "results" =>
    \A r \in 1..Len(merged.rows) : \A k \in 1..Len(CompareCols) :
      ( /\ merged.src[r][1] > 0 /\ merged.src[r][2] > 0
        /\ RawBlank(merged.src[r][1], CompareCols[k])
        /\ Field(df_pdf, merged.src[r][2], CompareCols[k]) = <<>> )
      => /\ ~Differs(merged, merged.rows[r], CompareCols[k])
         /\ \A q \in 1..Len(mismatches.rows) :
              ( /\ mismatches.src[q] = merged.src[r]
                /\ <<"M", "I", "S", "M", "A", "T", "C", "H", "_", "F", "I", "E", "L", "D", "S">> \in Range(mismatches.cols) )
              => ~ListedIn(Val(mismatches, mismatches.rows[q], <<"M", "I", "S", "M", "A", "T", "C", "H", "_", "F", "I", "E", "L", "D", "S">>), CompareCols[k])

(***************************************************************************)
(* The normalizers.                                                        *)
(***************************************************************************)
\* whether float(s) takes the text s
ParsesAsNumber(s) ==
  \/ ToLower(IF Len(s) > 0 /\ s[1] \in {"+", "-"} THEN Tail(s) ELSE s) \in InfNanWords
  \/ LET m == ReMatch(FloatPat, s, 0)
     IN m.ok /\ m.end = Len(s) /\ Len(Group(s, m, 2)) + Len(Group(s, m, 3)) > 0

\* the spans of s that hold digits only
DigitRuns(s) ==
  {r \in (0..Len(s)) \X (0..Len(s)) : r[1] < r[2] /\ \A i \in (r[1] + 1)..r[2] : s[i] \in Digit}

\* the longest run of digits of s, the first of them among equals; empty
\* without a digit
LongestDigitRun(s) ==
  IF DigitRuns(s) = {} THEN <<>>
  ELSE LET best == CHOOSE r \in DigitRuns(s) :
                     \A q \in DigitRuns(s) :
                       \/ r[2] - r[1] > q[2] - q[1]
                       \/ r[2] - r[1] = q[2] - q[1] /\ r[1] <= q[1]
       IN Slice(s, best[1], best[2])

\* s without one ".0" at its end
WithoutDotZero(s) ==
  IF Len(s) >= 2 /\ s[Len(s) - 1] = "." /\ s[Len(s)] = "0" THEN SubSeq(s, 1, Len(s) - 2) ELSE s

\* C4: for a text that is no number, normalize_register gives its longest
\* run of digits when that has 5 digits or more, and else the text without
\* a ".0" at its end
C4_FallbackLongestRun ==
  (pc # "input" /\ fn = "normalize_register" /\ ~ParsesAsNumber(Strip(raw))) =>
    once = IF Len(LongestDigitRun(Strip(raw))) >= 5 THEN LongestDigitRun(Strip(raw))
           ELSE WithoutDotZero(Strip(raw))

\* C5: each of the seven normalizers gives, on its own result, that result
C5_Idempotent == pc = "twice" => twice = once

(***************************************************************************)
(* The extraction functions.                                               *)
(***************************************************************************)
\* whether pat matches somewhere in text
Found(pat, text) == Starts(text, pat, 0..Len(text)) # {}

\* the fields of rec whose pattern matches nowhere in blk are empty
UnmatchedEmpty(rec, blk) ==
  /\ (~Found(NameRegPat, blk) /\ ~Found(NameRegPatAlt, blk))
       => rec.NAME = <<>> /\ rec.REGISTER_NO = <<>>
  /\ ~Found(DobPat, blk) => rec.DOB = <<>>
  /\ ~Found(GenderPat, blk) => rec.GENDER = <<>>
  /\ ~Found(ProgPat, blk) => rec.PROGRAMME = <<>>

\* C8: extract_pdf_students gives one record for each block after a UMIS
\* label, in the order of the blocks; a field whose pattern matches nowhere
\* in the block is empty in the record, and the record of a block is what
\* that block alone gives
C8_OneRecordPerBlock ==
  (phase = 1 /\ pc \in {"loop", "returned"}) =>
    /\ Len(blocks) = Len(reg_iter)
    /\ Len(records) = idx - 1
    /\ pc = "returned" => Len(records) = Len(blocks) /\ Len(df_pdf.rows) = Len(blocks)
    /\ \A i \in 1..Len(records) :
         /\ UnmatchedEmpty(records[i], blocks[i])
         /\ records[i] = StudentRecord(blocks[i])

\* a PDF of two blocks: the first has a name and no date of birth, the
\* second a date of birth
C8_Witness ==
  /\ phase = 1 /\ pc = "returned"
  /\ Len(records) >= 2
  /\ records[1].NAME # <<>> /\ records[1].DOB = <<>> /\ ~Found(DobPat, blocks[1])
  /\ records[2].DOB # <<>>

\* C9: with k labels in the text there are k blocks, in the order of the
\* labels; block i runs from the end of label i to the start of label i + 1,
\* the last one to the end of the text, so that labels and blocks follow
\* one another without gap or overlap from the first label on
C9_BlocksBetweenAnchors ==
  pc \in {"loop", "returned"} =>
    /\ Len(spans) = (IF phase = 1 \/ pc = "returned" THEN Len(reg_iter) ELSE idx - 1)
    /\ Len(blocks) = Len(spans)
    /\ \A i \in 1..Len(spans) :
         /\ reg_iter[i].start < reg_iter[i].end
         /\ spans[i][1] = reg_iter[i].end
         /\ spans[i][1] <= spans[i][2]
         /\ spans[i][2] = (IF i < Len(reg_iter) THEN reg_iter[i + 1].start ELSE Len(text_data))
         /\ blocks[i] = (IF phase = 1 THEN Slice(text_data, spans[i][1], spans[i][2])
                         ELSE Strip(Slice(text_data, spans[i][1], spans[i][2])))

\* a text of two labels or more, with text between the first two
C9_Witness ==
  /\ phase = 2 /\ pc = "returned"
  /\ Len(spans) >= 2
  /\ Len(blocks[1]) > 0

\* whether the spans p and q share no character
Disjoint(p, q) == p[2] <= q[1] \/ q[2] <= p[1]

SpanOf(m) == <<m.start, m.end>>

\* the spans u used in the block blk: those of all Layout A matches first,
\* then spans of Layout B matches, each disjoint from those before it
SpansOfBlock(blk, u, as, bs) ==
  /\ u.n_a = Len(as)
  /\ Len(u.spans) >= Len(as)
  /\ \A i \in 1..Len(as) : u.spans[i] = SpanOf(as[i])
  /\ \A i \in (Len(as) + 1)..Len(u.spans) :
       /\ \E k \in 1..Len(bs) : SpanOf(bs[k]) = u.spans[i]
       /\ \A j \in 1..(i - 1) : Disjoint(u.spans[i], u.spans[j])
  /\ \A i, j \in 1..Len(u.spans) : i # j => Disjoint(u.spans[i], u.spans[j])

RECURSIVE Accepted(_)
\* how many spans the blocks used
Accepted(us) == IF Len(us) = 0 THEN 0 ELSE Len(Head(us).spans) + Accepted(Tail(us))

\* C10: in each block of extract_pdf_data every Layout A match is taken, a
\* Layout B match only with a span disjoint from every span taken before
\* it; no two spans taken overlap, and each gives one record
C10_AcceptedSpansDisjoint ==
  (phase = 2 /\ pc \in {"loop", "returned"}) =>
    /\ Len(used_spans) = Len(blocks)
    /\ \A b \in 1..Len(blocks) :
         SpansOfBlock(blocks[b], used_spans[b], FindIter(pat_a, blocks[b]),
                      FindIter(pat_b, blocks[b]))
    /\ Len(records) = Accepted(used_spans)

\* a block with a Layout A match, a Layout B match taken, and a Layout B
\* match that runs into the Layout A match and is left out
C10_Witness ==
  /\ phase = 2 /\ pc = "returned"
  /\ \E b \in 1..Len(blocks) :
       /\ used_spans[b].n_a >= 1
       /\ Len(used_spans[b].spans) > used_spans[b].n_a
       /\ \E m \in Range(FindIter(pat_b, blocks[b])) :
            /\ SpanOf(m) \notin Range(used_spans[b].spans)
            /\ ~Disjoint(SpanOf(m), used_spans[b].spans[1])

=============================================================================
